---------------------------- MODULE Spec2Model ----------------------------
(***************************************************************************)
(* A model of smart-testify's test reconciler (cmd/smart-testify/          *)
(* generate.go, latest revision: lines 597-1373 of the concatenated file), *)
(* of its batch over a directory, of the context it builds for a target,   *)
(* of its function filter, of extractCode, of the calls it collects from a *)
(* target's body, and of the declaration finder (internal/util/finder.go). *)
(*                                                                         *)
(* Text is modelled as sequences: an identifier is a sequence of one-      *)
(* character strings, a file or an AI response is a sequence of tokens.    *)
(* Concatenation in the Go code (+) is \o here, so that name formats and   *)
(* merge results are computed, not assumed.                                *)
(***************************************************************************)
EXTENDS Integers, Sequences, FiniteSets, TLC

VARIABLES
    \* ---- naming model (generateTestFuncName applied to one FuncDecl) ----
    method,        \* the *ast.FuncDecl handed to generateTestFuncName
    named,         \* its result: [done, err, name]
    \* ---- reconciler model (processFile run repeatedly on one source file) ----
    source,        \* the source file: [ok, pkg, decls]
    testFile,      \* the test file on disk: [exists, text]
    runs,          \* number of processFile runs so far
    run,           \* what the last run did (see NoRun)
    \* ---- finder model (lookups on one file system) ----
    files,         \* the files on disk, in enumeration order
    lookups,       \* number of lookups so far
    look,          \* the last lookup: its request and what it gave (see NoLook)
    \* ---- batch model (one processDirectory call) ----
    disk,          \* what is at each path of the directory
    pos,           \* the entry of the walk that comes next
    batch,         \* the flags and the progress of the batch (see NoBatch)
    \* ---- context model (generateTypeDefinitionSectionCode for one target) ----
    collected,     \* the type and call references collected for the target
    contexts,      \* number of runs so far
    ctx,           \* the last run: ordered lists, blocks (see NoContext)
    \* ---- response model (extractCode applied to one AI response) ----
    resp,          \* the response text handed to extractCode
    extracted,     \* its result: [done, status, code]
    \* ---- body model (the context of a target, from the calls of its body) ----
    body           \* the call expressions of the target's body, in source order

nameVars == <<method, named>>
procVars == <<source, testFile, runs, run>>

findVars == <<files, lookups, look>>
dirVars  == <<disk, pos, batch>>
refVars  == <<collected, contexts, ctx>>

\* The variables of the models added to the two first ones.
textVars == <<resp, extracted>>
bodyVars == <<body>>
otherVars == <<findVars, dirVars, refVars, textVars, bodyVars>>

vars == <<nameVars, procVars, otherVars>>

(***************************************************************************)
(* Identifiers.                                                            *)
(***************************************************************************)
S_Test     == <<"T", "e", "s", "t">>
S_Us       == <<"_">>
S_Greeter  == <<"G", "r", "e", "e", "t", "e", "r">>
S_Greet    == <<"G", "r", "e", "e", "t">>
S_Process  == <<"P", "r", "o", "c", "e", "s", "s">>
S_process  == <<"p", "r", "o", "c", "e", "s", "s">>
S_string   == <<"s", "t", "r", "i", "n", "g">>
S_pkg      == <<"p", "k", "g">>
S_Empty    == <<>>

(***************************************************************************)
(* go/ast type expressions, as far as parseTypeDefination inspects them.   *)
(***************************************************************************)
Ident(n)       == [kind |-> "Ident", Name |-> n]
StarExpr(x)    == [kind |-> "StarExpr", X |-> x]
ArrayType(e)   == [kind |-> "ArrayType", Elt |-> e]
MapType(k, v)  == [kind |-> "MapType", Key |-> k, Value |-> v]
SelectorExpr(x, sel) == [kind |-> "SelectorExpr", X |-> x, Sel |-> sel]
InterfaceType  == [kind |-> "InterfaceType"]
IndexExpr      == [kind |-> "IndexExpr"]      \* a generic receiver T[K]: no case of the switch
NoRecv         == [kind |-> "NoRecv"]         \* method.Recv == nil

typePair(p, t) == [PackageName |-> p, TypeName |-> t]

ParseOk(ps)  == [pairs |-> ps, err |-> FALSE]
ParseErr     == [pairs |-> <<>>, err |-> TRUE]

\* generate.go:1026-1066
RECURSIVE parseTypeDefination(_)
parseTypeDefination(expr) ==
    CASE expr.kind = "Ident" ->
            ParseOk(<<typePair(S_Empty, expr.Name)>>)
      [] expr.kind = "StarExpr" ->
            parseTypeDefination(expr.X)
      [] expr.kind = "ArrayType" ->
            parseTypeDefination(expr.Elt)
      [] expr.kind = "MapType" ->
            LET keyPairs == parseTypeDefination(expr.Key) IN
            IF keyPairs.err THEN ParseErr
            ELSE LET valuePairs == parseTypeDefination(expr.Value) IN
                 IF valuePairs.err THEN ParseErr
                 ELSE ParseOk(keyPairs.pairs \o valuePairs.pairs)
      [] expr.kind = "SelectorExpr" ->
            IF expr.X.kind = "Ident"
            THEN ParseOk(<<typePair(expr.X.Name, expr.Sel)>>)
            ELSE ParseErr
      [] expr.kind = "InterfaceType" ->
            ParseOk(<<>>)
      [] OTHER ->
            ParseOk(<<>>)

FuncDecl(recv, name) == [Recv |-> recv, Name |-> name]

NameOk(n) == [err |-> FALSE, name |-> n]
NameErr   == [err |-> TRUE, name |-> <<>>]

\* The same function with the "Test_" prefix of the written specification.
generateTestFuncName_underscore(m) ==
    IF m.Recv.kind # "NoRecv"
    THEN LET pair == parseTypeDefination(m.Recv) IN
         IF pair.err THEN NameErr
         ELSE IF Len(pair.pairs) = 0 THEN NameErr
         ELSE NameOk(S_Test \o S_Us \o pair.pairs[1].TypeName \o S_Us \o m.Name)
    ELSE NameOk(S_Test \o S_Us \o m.Name)

\* generate.go:863-879
generateTestFuncName(m) ==
    IF m.Recv.kind # "NoRecv"
    THEN LET pair == parseTypeDefination(m.Recv) IN
         IF pair.err THEN NameErr
         ELSE IF Len(pair.pairs) = 0 THEN NameErr
         ELSE NameOk(S_Test \o pair.pairs[1].TypeName \o S_Us \o m.Name)
    ELSE NameOk(S_Test \o m.Name)

(***************************************************************************)
(* Text.  A file or a response is a sequence of tokens [t, s]:             *)
(*   "header"  the package clause of package s with its import block       *)
(*   "func"    the source text of a top-level function declaration named s *)
(*   "nl"      one "\n"                                                    *)
(*   "junk"    text that is not Go                                         *)
(*   "fenceGo", "fence"   the code fences of an AI response, with and     *)
(*             without the language tag go                                 *)
(***************************************************************************)
Tok(t, s) == [t |-> t, s |-> s]
Header(p) == Tok("header", p)
Func(n)   == Tok("func", n)
NL        == Tok("nl", S_Empty)
Junk      == Tok("junk", S_Empty)
FenceGo   == Tok("fenceGo", S_Empty)
Fence     == Tok("fence", S_Empty)

Min(S) == CHOOSE x \in S : \A y \in S : x <= y
Max(S) == CHOOSE x \in S : \A y \in S : x >= y

IsPrefix(a, b) == Len(a) <= Len(b) /\ SubSeq(b, 1, Len(a)) = a

\* strings.HasPrefix
HasPrefix(s, prefix) == IsPrefix(prefix, s)

\* strings.TrimLeft(code, "\n") and strings.TrimRight(code, "\n")
RECURSIVE TrimLeftNL(_)
TrimLeftNL(code) ==
    IF code # <<>> /\ Head(code) = NL THEN TrimLeftNL(Tail(code)) ELSE code

RECURSIVE TrimRightNL(_)
TrimRightNL(code) ==
    IF code # <<>> /\ code[Len(code)] = NL
    THEN TrimRightNL(SubSeq(code, 1, Len(code) - 1)) ELSE code

modeSkip            == "skip"
modeAppend          == "append"
granularityFile     == "file"
granularityFunction == "function"

\* generate.go:881-885
fileExists(f) == f.exists

\* go/parser on a file's text: one package clause, before every declaration, and
\* nothing that is not Go.
ParsesAsGo(text) ==
    LET hd == { i \in 1..Len(text) : text[i].t = "header" } IN
    /\ Cardinality(hd) = 1
    /\ \A i \in 1..Len(text) : text[i].t \in {"header", "func", "nl"}
    /\ \A i \in 1..Len(text) : text[i].t = "func" => i > Min(hd)

\* parseTestFile taking a file that does not parse for one with no tests.
parseTestFile_lenient(f) ==
    [err |-> FALSE,
     existingTests |-> { f.text[i].s : i \in { j \in 1..Len(f.text) :
                             /\ f.text[j].t = "func"
                             /\ HasPrefix(f.text[j].s, S_Test) } }]

\* parseTestFile with the prefix "Test_" of the written name format.
parseTestFile_underscore(f) ==
    IF ~ParsesAsGo(f.text) THEN [err |-> TRUE, existingTests |-> {}]
    ELSE [err |-> FALSE,
          existingTests |-> { f.text[i].s : i \in { j \in 1..Len(f.text) :
                                  /\ f.text[j].t = "func"
                                  /\ HasPrefix(f.text[j].s, S_Test \o S_Us) } }]

\* generate.go:826-843: the names of the file's function declarations that start
\* with "Test" (the keys of existingTests).
parseTestFile(f) ==
    IF ~ParsesAsGo(f.text) THEN [err |-> TRUE, existingTests |-> {}]
    ELSE [err |-> FALSE,
          existingTests |-> { f.text[i].s : i \in { j \in 1..Len(f.text) :
                                  /\ f.text[j].t = "func"
                                  /\ HasPrefix(f.text[j].s, S_Test) } }]

\* The flag --filter (functionFilter).  A regular expression is [kind, s]: "none"
\* is the empty string (no filter), "invalid" one that regexp.Compile rejects,
\* "prefix" is ^s, "suffix" is s$ and "contains" is the plain text s.
NoFilter      == [kind |-> "none", s |-> S_Empty]
InvalidFilter == [kind |-> "invalid", s |-> S_Empty]
Anchored(kind, s) == [kind |-> kind, s |-> s]

\* regexp.MatchString on a name: an unanchored search.
MatchString(regex, name) ==
    CASE regex.kind = "prefix" -> HasPrefix(name, regex.s)
      [] regex.kind = "suffix" ->
            /\ Len(regex.s) <= Len(name)
            /\ SubSeq(name, Len(name) - Len(regex.s) + 1, Len(name)) = regex.s
      [] OTHER ->
            \E i \in 0..(Len(name) - Len(regex.s)) :
                SubSeq(name, i + 1, i + Len(regex.s)) = regex.s

\* collectMethods that takes every function declaration, whatever the filter.
collectMethods_unfiltered(node, functionFilter) ==
    [err |-> functionFilter.kind = "invalid", methods |-> node.decls]

\* generate.go:1068-1092: the function declarations ast.Inspect meets, in source
\* order, each kept when there is no filter or its name matches it.
collectMethods(node, functionFilter) ==
    IF functionFilter.kind = "invalid" THEN [err |-> TRUE, methods |-> <<>>]
    ELSE LET M[i \in 0..Len(node.decls)] ==
                 IF i = 0 THEN <<>>
                 ELSE LET x == node.decls[i] IN
                      IF functionFilter.kind = "none" THEN Append(M[i - 1], x)
                      ELSE IF MatchString(functionFilter, x.Name) THEN Append(M[i - 1], x)
                      ELSE M[i - 1]
         IN  [err |-> FALSE, methods |-> M[Len(node.decls)]]

\* generate.go:798-812
defaultTestFile(packageName) == <<NL, Header(packageName), NL, NL>>

\* generate.go:931-959.  status "panic": the slice response[start:end] with
\* end < start.
extractCode(response) ==
    LET goIdx  == { i \in 1..Len(response) : response[i].t = "fenceGo" }
        anyIdx == { i \in 1..Len(response) : response[i].t \in {"fenceGo", "fence"} }
    IN  IF anyIdx = {} THEN [status |-> "err", code |-> <<>>]
        ELSE LET open  == IF goIdx # {} THEN Min(goIdx) ELSE Min(anyIdx)
                 start == open + 1
                 end   == Max(anyIdx)
             IN  IF end = start THEN [status |-> "err", code |-> <<>>]
                 ELSE IF end < start THEN [status |-> "panic", code |-> <<>>]
                 ELSE [status |-> "ok",
                       code |-> TrimRightNL(TrimLeftNL(SubSeq(response, start, end - 1)))]

(***************************************************************************)
(* What the collaborators do for one target: generatePrompt fails          *)
(* ("promptErr"), the AI call fails ("aiErr"), or the AI answers ("resp"). *)
(***************************************************************************)
PromptErr   == [kind |-> "promptErr", resp |-> <<>>]
AIErr       == [kind |-> "aiErr", resp |-> <<>>]
Answer(r)   == [kind |-> "resp", resp |-> r]

\* generate.go:895-929, for the one method processFile hands it.
generateTestCases(outcome) ==
    IF outcome.kind = "promptErr" THEN [status |-> "err", called |-> FALSE, code |-> <<>>]
    ELSE IF outcome.kind = "aiErr" THEN [status |-> "err", called |-> TRUE, code |-> <<>>]
    ELSE LET c == extractCode(outcome.resp) IN
         IF c.status # "ok" THEN [status |-> c.status, called |-> TRUE, code |-> <<>>]
         ELSE [status |-> "ok", called |-> TRUE, code |-> c.code \o <<NL, NL>>]

\* The file-level skip placed outside the test of testFileExists.
SkipWholeFile_unguarded(testFileExists, mode, gran) ==
    gran = granularityFile /\ mode = modeSkip

\* The file-level skip tested against the other mode constant.
SkipWholeFile_wrongMode(testFileExists, mode, gran) ==
    testFileExists /\ gran = granularityFile /\ mode = modeAppend

\* generate.go:711-715
SkipWholeFile(testFileExists, mode, gran) ==
    testFileExists /\ gran = granularityFile /\ mode = modeSkip

\* The per-target skip tested against the other granularity constant.
SkipTarget_wrongGran(exists, mode, gran) ==
    exists /\ mode = modeSkip /\ gran = granularityFile

\* The per-target skip taken whatever the mode.
SkipTarget_anyMode(exists, mode, gran) ==
    exists /\ gran = granularityFunction

\* generate.go:736-743
SkipTarget(exists, mode, gran) ==
    exists /\ mode = modeSkip /\ gran = granularityFunction

\* The merge of the earlier revision's shape: the file is rebuilt, the original
\* text is not carried over.
Merge_rebuild(testFileExists, original, packageName, generatedTestCode) ==
    defaultTestFile(packageName) \o generatedTestCode

\* The merge with the generated code put first.
Merge_prepend(testFileExists, original, packageName, generatedTestCode) ==
    generatedTestCode \o
    (IF testFileExists THEN original \o <<NL>> ELSE defaultTestFile(packageName))

\* generate.go:768-784
Merge(testFileExists, original, packageName, generatedTestCode) ==
    (IF testFileExists THEN original \o <<NL>> ELSE defaultTestFile(packageName))
        \o generatedTestCode

Decision(i, name, act, code) == [idx |-> i, name |-> name, act |-> act, code |-> code]

\* generate.go:724-761: the loop over the targets.  ai[i] is what the collaborators
\* do for target i if it is asked for.  status: "run" (loop completed), "err"
\* (returned an error), "panic".
processTargets(methods, existingTests, mode, gran, ai) ==
    LET F[i \in 0..Len(methods)] ==
            IF i = 0
            THEN [status |-> "run", generatedTestCode |-> <<>>,
                  decisions |-> <<>>, aiCalls |-> <<>>]
            ELSE LET a == F[i - 1] IN
                 IF a.status # "run" THEN a
                 ELSE LET testFuncName == generateTestFuncName(methods[i]) IN
                      IF testFuncName.err THEN [a EXCEPT !.status = "err"]
                      ELSE IF SkipTarget(testFuncName.name \in existingTests, mode, gran)
                      THEN [a EXCEPT !.decisions =
                               Append(@, Decision(i, testFuncName.name, "skip", <<>>))]
                      ELSE LET g == generateTestCases(ai[i]) IN
                           [status |-> IF g.status = "ok" THEN "run" ELSE g.status,
                            generatedTestCode |-> a.generatedTestCode \o g.code,
                            decisions |-> Append(a.decisions,
                                Decision(i, testFuncName.name, "generate", g.code)),
                            aiCalls |-> IF g.called THEN Append(a.aiCalls, i)
                                        ELSE a.aiCalls]
    IN  F[Len(methods)]

NoText == [some |-> FALSE, text |-> <<>>]
Text(x) == [some |-> TRUE, text |-> x]

Outcome(result, file, parsed, t, handed) ==
    [result |-> result, file |-> file, parsed |-> parsed,
     decisions |-> t.decisions, aiCalls |-> t.aiCalls, handed |-> handed]

NoTargets == [decisions |-> <<>>, aiCalls |-> <<>>]

\* What ioutil.WriteFile does when it is asked to write the test file: it writes
\* it all ("ok"), it cannot open it ("refused"), or it opens it, which creates or
\* empties it, and fails after n tokens ("cut").
WriteDone    == [kind |-> "ok", n |-> 0]
WriteRefused == [kind |-> "refused", n |-> 0]
WriteCut(n)  == [kind |-> "cut", n |-> n]

\* generate.go:815-823 writeTestFile: ioutil.WriteFile(testFilePath, finalCode, 0644)
\* opens the file with O_CREATE and O_TRUNC, writes and closes; an error of the
\* write leaves what was written before it.
writeTestFile(f, finalCode, write) ==
    CASE write.kind = "ok" -> [err |-> FALSE, file |-> [exists |-> TRUE, text |-> finalCode]]
      [] write.kind = "refused" -> [err |-> TRUE, file |-> f]
      [] OTHER ->
            [err |-> TRUE,
             file |-> [exists |-> TRUE,
                       text |-> SubSeq(finalCode, 1, Min({write.n, Len(finalCode) - 1}))]]

\* generate.go:688-796.  functionFilter: the flag --filter; src, f: the source
\* file and the test file as they are on disk; write: what ioutil.WriteFile does.
\* The result names the test file as the run leaves it.
\* util.RunGoImports (line 791) is the
\* external formatter: it changes layout and the import block only, which the tokens
\* do not tell apart, and its failure is only logged.
processFile(functionFilter, src, f, mode, gran, ai, write) ==
    IF ~src.ok THEN Outcome("err", f, FALSE, NoTargets, NoText)
    ELSE LET cm == collectMethods(src, functionFilter)
             methods == cm.methods IN
    IF cm.err THEN Outcome("err", f, FALSE, NoTargets, NoText)
    ELSE IF Len(methods) = 0 THEN Outcome("ok", f, FALSE, NoTargets, NoText)
    ELSE LET testFileExists == fileExists(f) IN
    IF SkipWholeFile(testFileExists, mode, gran)
    THEN Outcome("ok", f, FALSE, NoTargets, NoText)
    ELSE LET p == IF testFileExists THEN parseTestFile(f)
                  ELSE [err |-> FALSE, existingTests |-> {}] IN
    IF p.err THEN Outcome("err", f, TRUE, NoTargets, NoText)
    ELSE LET t == processTargets(methods, p.existingTests, mode, gran, ai) IN
    IF t.status # "run" THEN Outcome(t.status, f, testFileExists, t, NoText)
    ELSE IF t.generatedTestCode = <<>> THEN Outcome("ok", f, testFileExists, t, NoText)
    ELSE LET final == Merge(testFileExists, f.text, src.pkg, t.generatedTestCode) IN
    LET w == writeTestFile(f, final, write) IN
    Outcome(IF w.err THEN "err" ELSE "ok", w.file, testFileExists, t, Text(final))

(***************************************************************************)
(* The declaration finder (internal/util/finder.go).  A directory path and *)
(* a package short name are sequences of characters, an import path is a   *)
(* sequence of segments, a file name a sequence of tokens ending in its    *)
(* extension ("a.go" is <<"a", ".go">>, "a_test.go" is <<"a", "_test",     *)
(* ".go">>).  A file is [dir, sub, name, ok, imports, types, funcs]: the   *)
(* package directory it is under, its subdirectory of it (<<>> when it is  *)
(* directly in dir), whether go/parser accepts it, and what it declares.   *)
(* The source text of a declaration is a one-token sequence naming the     *)
(* file it was printed from; the empty string is <<>>.                     *)
(***************************************************************************)
NoSrc == <<>>

\* finder.go:127-137 formatTypeDeclaration: "type " and the printed TypeSpec.
formatTypeDeclaration(f, typeName) ==
    <<[kw |-> "type", recv |-> S_Empty, name |-> typeName,
       dir |-> f.dir, sub |-> f.sub, file |-> f.name]>>

\* finder.go:292-297
extractSourceCode(f, funcDecl) ==
    <<[kw |-> "func", recv |-> funcDecl.recv, name |-> funcDecl.name,
       dir |-> f.dir, sub |-> f.sub, file |-> f.name]>>

\* filepath.Ext(name) == ".go" and strings.HasSuffix(name, "_test.go")
IsGoFile(name)   == name # <<>> /\ name[Len(name)] = ".go"
IsTestFile(name) == Len(name) >= 2 /\ SubSeq(name, Len(name) - 1, Len(name)) = <<"_test", ".go">>

ImportSpec(hasName, name, path) == [hasName |-> hasName, Name |-> name, Path |-> path]

IsDigit(c) == c \in {"0", "1", "2", "3", "4", "5", "6", "7", "8", "9"}

\* A path segment of the form v<digits>.
IsVersionSegment(seg) ==
    /\ Len(seg) >= 2
    /\ seg[1] = "v"
    /\ \A i \in 2..Len(seg) : IsDigit(seg[i])

\* regexp /v\d+$ replaced by "": the trailing segment is removed when it is a
\* version and a "/" precedes it.
StripVersion(path) ==
    IF Len(path) >= 2 /\ IsVersionSegment(path[Len(path)])
    THEN SubSeq(path, 1, Len(path) - 1) ELSE path

\* findImportPath without the version regexp: the literal last segment.
findImportPath_literalSegment(pkgShortName, imports) ==
    LET match(imp) == IF imp.hasName THEN imp.Name = pkgShortName
                      ELSE imp.Path[Len(imp.Path)] = pkgShortName
        hits == { i \in 1..Len(imports) : match(imports[i]) }
    IN  IF hits = {} THEN [ok |-> FALSE, path |-> <<>>]
        ELSE [ok |-> TRUE, path |-> imports[Min(hits)].Path]

\* finder.go:72-94
findImportPath(pkgShortName, imports) ==
    LET match(imp) ==
            IF imp.hasName THEN imp.Name = pkgShortName
            ELSE LET parts == StripVersion(imp.Path) IN
                 parts[Len(parts)] = pkgShortName
        hits == { i \in 1..Len(imports) : match(imports[i]) }
    IN  IF hits = {} THEN [ok |-> FALSE, path |-> <<>>]
        ELSE [ok |-> TRUE, path |-> imports[Min(hits)].Path]

\* build.Default.GOROOT
GOROOT == <<"/", "g">>

\* isStandardLibraryPackage answering no for every directory.
isStandardLibraryPackage_never(pkgPath) == FALSE

\* finder.go:96-100
isStandardLibraryPackage(pkgPath) == HasPrefix(pkgPath, GOROOT)

\* finder.go:110-125: the first TypeSpec of that name, printed; "" when none.
findTypeInFile(f, typeName) ==
    IF typeName \in f.types THEN formatTypeDeclaration(f, typeName) ELSE NoSrc

Walked(result, err, parsed) == [result |-> result, err |-> err, parsed |-> parsed]

\* finder.go:139-179.  filepath.Walk visits the files under pkgPath in lexical
\* order, subdirectories included.  filepath.SkipDir returned for a file skips the
\* rest of the directory that holds it: the walk ends when that is pkgPath itself
\* and goes on with the entries after the subdirectory otherwise.
findTypeInPackage(fs, pkgPath, typeName) ==
    LET list == SelectSeq(fs, LAMBDA f : f.dir = pkgPath)
        W[i \in 0..Len(list)] ==
            IF i = 0
            THEN [result |-> NoSrc, err |-> FALSE, done |-> FALSE,
                  skipped |-> {}, parsed |-> <<>>]
            ELSE LET a == W[i - 1]
                     f == list[i]
                 IN  IF a.done \/ f.sub \in a.skipped THEN a
                     ELSE IF ~IsGoFile(f.name) \/ IsTestFile(f.name) THEN a
                     ELSE IF ~f.ok
                     THEN [a EXCEPT !.err = TRUE, !.done = TRUE,
                                    !.parsed = Append(@, f)]
                     ELSE LET typeSource == findTypeInFile(f, typeName) IN
                          IF typeSource # NoSrc
                          THEN [a EXCEPT !.result = typeSource,
                                         !.parsed = Append(@, f),
                                         !.skipped = @ \cup {f.sub},
                                         !.done = (f.sub = <<>>)]
                          ELSE [a EXCEPT !.parsed = Append(@, f)]
        w == W[Len(list)]
    IN  IF w.err THEN Walked(NoSrc, TRUE, w.parsed)
        ELSE Walked(w.result, FALSE, w.parsed)

\* finder.go:240-267: the first declaration, in source order, that is a method
\* funcName of receiver typeName or *typeName, or, when typeName is "", the
\* top-level function funcName.
findFunctionOrMethodInFile(f, typeName, funcName) ==
    LET match(d) == IF d.hasRecv THEN d.recv = typeName /\ d.name = funcName
                    ELSE typeName = S_Empty /\ d.name = funcName
        hits == { i \in 1..Len(f.funcs) : match(f.funcs[i]) }
    IN  IF hits = {} THEN NoSrc ELSE extractSourceCode(f, f.funcs[Min(hits)])

\* The search for a function ending with an error at a file that fails to parse, as
\* the search for a type does.
findFunctionOrMethodInPackage_abort(fs, pkgPath, typeName, funcName) ==
    LET list == SelectSeq(fs, LAMBDA f : f.dir = pkgPath /\ f.sub = <<>>
                                            /\ IsGoFile(f.name))
        G[i \in 0..Len(list)] ==
            IF i = 0 THEN Walked(NoSrc, FALSE, <<>>)
            ELSE LET a == G[i - 1]
                     f == list[i]
                 IN  IF a.result # NoSrc \/ a.err THEN a
                     ELSE IF ~f.ok THEN Walked(NoSrc, TRUE, Append(a.parsed, f))
                     ELSE Walked(findFunctionOrMethodInFile(f, typeName, funcName),
                                 FALSE, Append(a.parsed, f))
    IN  G[Len(list)]

\* finder.go:270-289.  filepath.Glob(pkgPath/*.go): the files directly in pkgPath
\* whose name ends in .go, in lexical order; a file that fails to parse is skipped.
findFunctionOrMethodInPackage(fs, pkgPath, typeName, funcName) ==
    LET list == SelectSeq(fs, LAMBDA f : f.dir = pkgPath /\ f.sub = <<>>
                                            /\ IsGoFile(f.name))
        G[i \in 0..Len(list)] ==
            IF i = 0 THEN Walked(NoSrc, FALSE, <<>>)
            ELSE LET a == G[i - 1]
                     f == list[i]
                 IN  IF a.result # NoSrc THEN a
                     ELSE IF ~f.ok THEN Walked(NoSrc, FALSE, Append(a.parsed, f))
                     ELSE Walked(findFunctionOrMethodInFile(f, typeName, funcName),
                                 FALSE, Append(a.parsed, f))
    IN  G[Len(list)]

\* What a lookup gives: the source text, whether it failed, the directories a
\* package search was started in, the files such a search handed to the parser,
\* and the answer of findImportPath (NoImport when it was not asked).
NoImport == [asked |-> FALSE, ok |-> FALSE, path |-> <<>>]
Asked(i) == [asked |-> TRUE, ok |-> i.ok, path |-> i.path]

Found(src, err, scans, parsed, imp) ==
    [src |-> src, err |-> err, scans |-> scans, parsed |-> parsed, imp |-> imp]

\* FindTypeSource searching the package before the current file.
LocalFirst_no(cur, typeName) == NoSrc

\* finder.go:29-37: the current file is asked first.
LocalFirst(cur, typeName) == findTypeInFile(cur, typeName)

\* finder.go:18-70.  cur is the file at filePath, resolve the answer of
\* resolveImportPath (build.Import, finder.go:102-108) for each import path.
FindTypeSource(fs, resolve, cur, typePrefixImportName, typeName) ==
    IF ~cur.ok THEN Found(NoSrc, TRUE, <<>>, <<>>, NoImport)
    ELSE LET pkgPath == cur.dir IN
    IF typePrefixImportName = S_Empty
    THEN LET typeSource == LocalFirst(cur, typeName) IN
         IF typeSource # NoSrc THEN Found(typeSource, FALSE, <<>>, <<>>, NoImport)
         ELSE LET p == findTypeInPackage(fs, pkgPath, typeName) IN
              Found(p.result, p.err, <<pkgPath>>, p.parsed, NoImport)
    ELSE LET imp == Asked(findImportPath(typePrefixImportName, cur.imports)) IN
         IF ~imp.ok THEN Found(NoSrc, FALSE, <<>>, <<>>, imp)
         ELSE LET r == resolve[imp.path] IN
         IF ~r.ok THEN Found(NoSrc, TRUE, <<>>, <<>>, imp)
         ELSE IF isStandardLibraryPackage(r.dir) THEN Found(NoSrc, FALSE, <<>>, <<>>, imp)
         ELSE LET p == findTypeInPackage(fs, r.dir, typeName) IN
              Found(p.result, p.err, <<r.dir>>, p.parsed, imp)

\* finder.go:185-237
FindFunctionSource(fs, resolve, cur, packageName, typeName, funcName) ==
    IF ~cur.ok THEN Found(NoSrc, TRUE, <<>>, <<>>, NoImport)
    ELSE LET pkgPath == cur.dir IN
    IF packageName = S_Empty
    THEN LET funcSource == findFunctionOrMethodInFile(cur, typeName, funcName) IN
         IF funcSource # NoSrc THEN Found(funcSource, FALSE, <<>>, <<>>, NoImport)
         ELSE LET p == findFunctionOrMethodInPackage(fs, pkgPath, typeName, funcName) IN
              Found(p.result, p.err, <<pkgPath>>, p.parsed, NoImport)
    ELSE LET imp == Asked(findImportPath(packageName, cur.imports)) IN
         IF ~imp.ok THEN Found(NoSrc, TRUE, <<>>, <<>>, imp)
         ELSE LET r == resolve[imp.path] IN
         IF ~r.ok THEN Found(NoSrc, TRUE, <<>>, <<>>, imp)
         ELSE IF isStandardLibraryPackage(r.dir) THEN Found(NoSrc, FALSE, <<>>, <<>>, imp)
         ELSE LET p == findFunctionOrMethodInPackage(fs, r.dir, typeName, funcName) IN
              Found(p.result, p.err, <<r.dir>>, p.parsed, imp)

(***************************************************************************)
(* The batch (processDirectory).  A path is a file name in tokens, as in   *)
(* the finder.  The disk maps each path to what is there: [exists, dir,    *)
(* text, node], node being what parseGoFile and collectMethods make of a   *)
(* source file.                                                            *)
(***************************************************************************)
\* strings.TrimSuffix(filePath, ".go")
TrimSuffixGo(filePath) ==
    IF IsGoFile(filePath) THEN SubSeq(filePath, 1, Len(filePath) - 1) ELSE filePath

\* The test file taken to be the source file itself.
testFilePath_same(filePath) == filePath

\* generate.go:709
testFilePath(filePath) == TrimSuffixGo(filePath) \o <<"_test", ".go">>

\* generate.go:674: the walk hands processFile the regular files named *.go that
\* are not named *_test.go.
Eligible(entry, path) == ~entry.dir /\ IsGoFile(path) /\ ~IsTestFile(path)

\* The batch going on after a failed file whatever the flag says.
StopOnError_never(ignoreErrorFlag) == FALSE

\* generate.go:677-679
StopOnError(ignoreErrorFlag) == ~ignoreErrorFlag

\* What parseGoFile makes of a file that is not Go source.
Unparsed == [ok |-> FALSE, pkg |-> S_pkg, decls |-> <<>>]

OnDisk(text, node) == [exists |-> TRUE, dir |-> FALSE, text |-> text, node |-> node]
Missing == [exists |-> FALSE, dir |-> FALSE, text |-> <<>>, node |-> Unparsed]
Directory == [exists |-> TRUE, dir |-> TRUE, text |-> <<>>, node |-> Unparsed]

\* generate.go:688-796 on the disk: the run of processFile on filePath, and the disk
\* as it leaves it.  ioutil.WriteFile (generate.go:815-823) replaces the content of
\* testFilePath; what is written is a test file, of which parseGoFile is never asked.
processFileOnDisk(d, filePath, mode, gran, ai, write) ==
    LET tp == testFilePath(filePath)
        f  == [exists |-> d[tp].exists, text |-> d[tp].text]
        o  == processFile(NoFilter, d[filePath].node, f, mode, gran, ai, write)
    IN  [result |-> o.result,
         handed |-> o.handed,
         wrote  |-> o.file # f,
         disk   |-> IF o.file = f THEN d
                    ELSE [d EXCEPT ![tp] = OnDisk(o.file.text, Unparsed)]]

(***************************************************************************)
(* The context of a target (generateTypeDefinitionSectionCode): the type   *)
(* and call references collected for it, deduplicated, ordered, looked up  *)
(* with the finder and laid out as blocks.                                 *)
(***************************************************************************)
functionPair(p, t, f) == [PackageName |-> p, TypeName |-> t, FuncName |-> f]

\* The code points of the characters of the identifiers in use.
CodePoint ==
    ("F" :> 70) @@ ("G" :> 71) @@ ("T" :> 84) @@ ("X" :> 88) @@ ("Y" :> 89)
    @@ ("f" :> 102) @@ ("g" :> 103) @@ ("k" :> 107) @@ ("m" :> 109) @@ ("o" :> 111)
    @@ ("p" :> 112) @@ ("t" :> 116)

\* Go's < on strings.
RECURSIVE StringLess(_, _)
StringLess(a, b) ==
    IF b = <<>> THEN FALSE
    ELSE IF a = <<>> THEN TRUE
    ELSE IF Head(a) # Head(b) THEN CodePoint[Head(a)] < CodePoint[Head(b)]
    ELSE StringLess(Tail(a), Tail(b))

\* The orders in which ranging over a Go map can yield the distinct elements of
\* a list: every one of them.
MapOrders(list) ==
    LET S == { list[i] : i \in 1..Len(list) } IN
    { s \in [1..Cardinality(S) -> S] : \A x \in S : \E i \in 1..Cardinality(S) : s[i] = x }

\* generate.go:972-990: the results the function can give.
uniqueFunctionPair(pairs) == MapOrders(pairs)

\* generate.go:992-1010: the results the function can give.
uniqueTypePair(pairs) == MapOrders(pairs)

\* The elements of a list.
Elems(s) == { s[i] : i \in 1..Len(s) }

\* sort.Slice on a short slice (insertion sort): each element moves left while it
\* is less than its left neighbour.  less: the pairs <<x, y>> with x less than y.
Insert(less, s, x) ==
    LET stop == { j \in 1..Len(s) : <<x, s[j]>> \notin less }
        p    == IF stop = {} THEN 0 ELSE Max(stop)
    IN  SubSeq(s, 1, p) \o <<x>> \o SubSeq(s, p + 1, Len(s))

sortSlice(less, s) ==
    LET F[i \in 0..Len(s)] == IF i = 0 THEN <<>> ELSE Insert(less, F[i - 1], s[i])
    IN  F[Len(s)]

\* The comparison with the test of the empty qualifier left out.
lessTypePair_byName(x, y) == StringLess(x.TypeName, y.TypeName)

\* generate.go:1013-1022, the less function of sortByImportNameAndName.
lessTypePair(x, y) ==
    IF x.PackageName = S_Empty /\ y.PackageName # S_Empty THEN TRUE
    ELSE IF x.PackageName # S_Empty /\ y.PackageName = S_Empty THEN FALSE
    ELSE StringLess(x.TypeName, y.TypeName)

\* generate.go:1012-1024
sortByImportNameAndName(pairs) ==
    sortSlice({ xy \in Elems(pairs) \X Elems(pairs) : lessTypePair(xy[1], xy[2]) }, pairs)

\* generate.go:1208-1219, the less function of sortFunctionPairs.
lessFunctionPair(x, y) ==
    IF x.PackageName # y.PackageName THEN StringLess(x.PackageName, y.PackageName)
    ELSE IF x.TypeName # y.TypeName THEN StringLess(x.TypeName, y.TypeName)
    ELSE StringLess(x.FuncName, y.FuncName)

\* generate.go:1207-1220
sortFunctionPairs(functions) ==
    sortSlice({ xy \in Elems(functions) \X Elems(functions) :
                  lessFunctionPair(xy[1], xy[2]) }, functions)

\* generate.go:1352-1356: "Model: T" or "Package: P Model: T", then the definition.
Block(pair, sourceCode) ==
    [header |-> IF pair.PackageName = S_Empty THEN "Model" ELSE "Package Model",
     Package |-> pair.PackageName, Model |-> pair.TypeName, Definition |-> sourceCode]

\* A block written for a reference whatever its source.
EmitBlock_always(sourceCode) == TRUE

\* generate.go:1351
EmitBlock(sourceCode) == sourceCode # NoSrc

\* generate.go:1337-1361.  uniquePairs: what uniqueTypePair(pairs) gave;
\* resolve: the answers of resolveImportPath.
generateTypeDefinition(fs, resolve, cur, pairs, uniquePairs) ==
    IF Len(pairs) = 0 THEN [err |-> FALSE, blocks |-> <<>>, list |-> <<>>]
    ELSE LET sorted == sortByImportNameAndName(uniquePairs)
             R[i \in 0..Len(sorted)] ==
                 IF i = 0 THEN [err |-> FALSE, blocks |-> <<>>]
                 ELSE LET a == R[i - 1] IN
                      IF a.err THEN a
                      ELSE LET s == FindTypeSource(fs, resolve, cur, sorted[i].PackageName,
                                                   sorted[i].TypeName) IN
                           IF s.err THEN [err |-> TRUE, blocks |-> <<>>]
                           ELSE IF EmitBlock(s.src)
                           THEN [a EXCEPT !.blocks = Append(@, Block(sorted[i], s.src))]
                           ELSE a
         IN  [err |-> R[Len(sorted)].err, blocks |-> R[Len(sorted)].blocks, list |-> sorted]

\* A call expression of a body: x.Sel() with what go/parser resolved the
\* identifier x to (its Obj: the kind, the kind of the declaration, the type of
\* the field), or Name().
VarObj(decl, type) == [Kind |-> "Var", Name |-> S_Empty, Decl |-> decl, Type |-> type]
PkgObj(name)       == [Kind |-> "Pkg", Name |-> name, Decl |-> "ImportSpec", Type |-> InterfaceType]
NoObj              == [Kind |-> "nil", Name |-> S_Empty, Decl |-> "nil", Type |-> InterfaceType]
MethodCall(obj, sel) == [Fun |-> "SelectorExpr", X |-> obj, Sel |-> sel]
FuncCall(name)       == [Fun |-> "Ident", X |-> NoObj, Sel |-> name]

\* generate.go:1248-1261: packageName and typeName as the switch on varDecl.Type
\* leaves them; both stay empty when no case sets them.
OwnerOf(t) ==
    IF t.kind = "Ident" THEN <<[PackageName |-> S_Empty, TypeName |-> t.Name]>>
    ELSE IF t.kind = "StarExpr" /\ t.X.kind = "SelectorExpr"
    THEN <<[PackageName |-> t.X.X.Name, TypeName |-> t.X.Sel]>>
    ELSE <<[PackageName |-> S_Empty, TypeName |-> S_Empty]>>

\* generate.go:1232-1277: what the visit of one *ast.CallExpr appends to
\* usedFunctions.
CallPairs(x) ==
    IF x.Fun = "SelectorExpr"
    THEN IF x.X.Kind = "Pkg" THEN <<functionPair(x.X.Name, S_Empty, x.Sel)>>
         ELSE IF x.X.Kind = "Var" /\ x.X.Decl = "Field"
         THEN LET o == OwnerOf(x.X.Type) IN
              IF o = <<>> THEN <<>>
              ELSE <<functionPair(o[1].PackageName, o[1].TypeName, x.Sel)>>
         ELSE <<>>
    ELSE <<functionPair(S_Empty, S_Empty, x.Sel)>>

\* generate.go:1223-1302, the calls: usedFunctions before uniqueFunctionPair.  The
\* bodies of the model hold no type identifier, so usedTypes is empty.
collectTypesAndFunctionsFromBody(b) ==
    LET U[i \in 0..Len(b)] == IF i = 0 THEN <<>> ELSE U[i - 1] \o CallPairs(b[i])
    IN  U[Len(b)]

Context(err, blocks, funcs, typeList, callList) ==
    [err |-> err, blocks |-> blocks, funcs |-> funcs, typeList |-> typeList,
     callList |-> callList]

\* generate.go:1143-1205, from the collected references on.  allTypePairs: the type
\* references of the receiver, the parameters, the results and the body;
\* usedFunctions: what uniqueFunctionPair gave for the calls of the body.
generateTypeDefinitionSectionCode(fs, resolve, cur, allTypePairs, uniquePairs, usedFunctions) ==
    LET t == generateTypeDefinition(fs, resolve, cur, allTypePairs, uniquePairs) IN
    IF t.err THEN Context(TRUE, <<>>, <<>>, t.list, <<>>)
    ELSE LET calls == sortFunctionPairs(usedFunctions)
             R[i \in 0..Len(calls)] ==
                 IF i = 0 THEN [err |-> FALSE, funcs |-> <<>>]
                 ELSE LET a == R[i - 1] IN
                      IF a.err THEN a
                      ELSE LET s == FindFunctionSource(fs, resolve, cur, calls[i].PackageName,
                                        calls[i].TypeName, calls[i].FuncName) IN
                           IF s.err THEN [err |-> TRUE, funcs |-> <<>>]
                           ELSE [a EXCEPT !.funcs = Append(@, s.src)]
         IN  IF R[Len(calls)].err THEN Context(TRUE, <<>>, <<>>, t.list, calls)
             ELSE Context(FALSE, t.blocks, R[Len(calls)].funcs, t.list, calls)

(***************************************************************************)
(* Inputs of the naming model: receiver type expressions up to MaxDepth    *)
(* wrappers around a leaf, and a few function names.                       *)
(***************************************************************************)
MaxDepth == 3

LeafTypes ==
    { Ident(S_Greeter), Ident(S_string), SelectorExpr(Ident(S_pkg), S_Greeter),
      SelectorExpr(IndexExpr, S_Greeter), InterfaceType, IndexExpr }

KeyTypes == { Ident(S_string), Ident(S_Greeter), InterfaceType }

RECURSIVE TypeExprs(_)
TypeExprs(d) ==
    IF d = 0 THEN LeafTypes
    ELSE LET sub == TypeExprs(d - 1) IN
         sub \cup { StarExpr(x) : x \in sub }
             \cup { ArrayType(x) : x \in sub }
             \cup { MapType(k, v) : k \in KeyTypes, v \in sub }

FuncNames == { S_Greet, S_Process, S_process }

Methods == { FuncDecl(r, n) : r \in TypeExprs(MaxDepth) \cup {NoRecv}, n \in FuncNames }

NotNamed == [done |-> FALSE, err |-> FALSE, name |-> <<>>]

(***************************************************************************)
(* Inputs of the reconciler model.                                         *)
(***************************************************************************)
MaxRuns == 2

S_TestGreeter_Greet ==
    <<"T", "e", "s", "t", "G", "r", "e", "e", "t", "e", "r", "_", "G", "r", "e", "e", "t">>
S_Test_Greeter_Greet ==
    <<"T", "e", "s", "t", "_", "G", "r", "e", "e", "t", "e", "r", "_", "G", "r", "e", "e", "t">>
S_TestProcess == <<"T", "e", "s", "t", "P", "r", "o", "c", "e", "s", "s">>

M_Greet   == FuncDecl(StarExpr(Ident(S_Greeter)), S_Greet)   \* func (g *Greeter) Greet()
M_Process == FuncDecl(NoRecv, S_Process)                     \* func Process()
M_Generic == FuncDecl(IndexExpr, S_Greet)                    \* func (b Box[T]) Greet()

SourceFile(ok, decls) == [ok |-> ok, pkg |-> S_pkg, decls |-> decls]

Sources ==
    { SourceFile(TRUE, <<M_Greet>>),
      SourceFile(TRUE, <<M_Greet, M_Process>>),
      SourceFile(TRUE, <<M_Generic>>),
      SourceFile(TRUE, <<>>),
      SourceFile(FALSE, <<>>) }

Absent  == [exists |-> FALSE, text |-> <<>>]
File(t) == [exists |-> TRUE, text |-> t]

TestFiles ==
    { Absent,
      File(<<Header(S_pkg), NL, Func(S_TestGreeter_Greet), NL>>),
      File(<<Header(S_pkg), NL, Func(S_Test_Greeter_Greet)>>),
      File(<<Header(S_pkg), NL, Func(S_TestGreeter_Greet), NL, Func(S_TestProcess), NL>>),
      File(<<Junk>>) }

Outcomes ==
    { PromptErr, AIErr,
      Answer(<<FenceGo, NL, Func(S_TestGreeter_Greet), NL, Fence>>),
      Answer(<<Fence, Func(S_TestProcess), Fence>>),
      Answer(<<FenceGo, Header(S_pkg), Func(S_TestProcess), Fence>>),
      Answer(<<Func(S_TestProcess)>>),
      Answer(<<FenceGo, Func(S_TestProcess)>>) }

Writes == { WriteDone, WriteRefused, WriteCut(0), WriteCut(1) }

Modes == { modeSkip, modeAppend }
Grans == { granularityFile, granularityFunction }

NoPolicy == [mode |-> "none", gran |-> "none"]

NoRun ==
    [mode |-> "none", gran |-> "none", pre |-> Absent, result |-> "none",
     parsed |-> FALSE, decisions |-> <<>>, aiCalls |-> <<>>, handed |-> NoText,
     prev |-> NoPolicy, filter |-> NoFilter]

(***************************************************************************)
(* Inputs of the filter model: source files of two and three functions,    *)
(* one of them with a method Greet of Greeter and a function named         *)
(* Greeter_Greet, and the filters "", an invalid one, ^G, User$, ro, ^X.   *)
(***************************************************************************)
S_GetUser == <<"G", "e", "t", "U", "s", "e", "r">>
S_User    == <<"U", "s", "e", "r">>
S_Greeter_Greet == S_Greeter \o S_Us \o S_Greet

M_GetUser == FuncDecl(NoRecv, S_GetUser)                     \* func GetUser()
M_Greeter_Greet == FuncDecl(NoRecv, S_Greeter_Greet)         \* func Greeter_Greet()

FilterSources ==
    { SourceFile(TRUE, <<M_Greet, M_Process>>),
      SourceFile(TRUE, <<M_GetUser, M_Process, M_Greet>>),
      SourceFile(TRUE, <<M_Greet, M_Greeter_Greet>>),
      SourceFile(FALSE, <<>>) }

FilterTestFiles ==
    { Absent, File(<<Header(S_pkg), NL, Func(S_TestGreeter_Greet), NL>>) }

Filters ==
    { NoFilter, InvalidFilter,
      Anchored("prefix", <<"G">>), Anchored("suffix", S_User),
      Anchored("contains", <<"r", "o">>), Anchored("prefix", <<"X">>) }

FilterOutcomes ==
    { AIErr,
      Answer(<<FenceGo, NL, Func(S_TestGreeter_Greet), NL, Fence>>),
      Answer(<<Func(S_TestProcess)>>) }

(***************************************************************************)
(* Inputs of the finder model: a current package directory /w with a       *)
(* subdirectory s, an external package directory /m/e, a directory under   *)
(* GOROOT and one beside it, and a few import lists.                       *)
(***************************************************************************)
MaxLookups == 2

S_foo == <<"f", "o", "o">>
S_v9  == <<"v", "9">>
S_fmt == <<"f", "m", "t">>
S_x   == <<"x">>
S_y   == <<"y">>
S_n   == <<"n">>
S_T   == <<"T">>
S_U   == <<"U">>
S_F   == <<"F">>

D_cur  == <<"/", "w">>
D_ext  == <<"/", "m", "/", "e">>
D_std  == <<"/", "g", "/", "f">>
D_near == <<"/", "g", "x">>

N_a      == <<"a", ".go">>
N_a_test == <<"a", "_test", ".go">>
N_c      == <<"c", ".go">>
N_s      == <<"s", ".go">>
N_z      == <<"z", ".go">>
N_notes  == <<"n", ".md">>

FnDecl(hasRecv, recv, name) == [hasRecv |-> hasRecv, recv |-> recv, name |-> name]

GoFile(dir, sub, name, ok, imports, types, funcs) ==
    [dir |-> dir, sub |-> sub, name |-> name, ok |-> ok, imports |-> imports,
     types |-> types, funcs |-> funcs]

\* A file with no declaration, a file declaring type T, method T.F and function F,
\* and a file go/parser rejects.
Bare(dir, sub, name, imports)   == GoFile(dir, sub, name, TRUE, imports, {}, <<>>)
WithTF(dir, sub, name, imports) ==
    GoFile(dir, sub, name, TRUE, imports, {S_T},
           <<FnDecl(TRUE, S_T, S_F), FnDecl(FALSE, S_Empty, S_F)>>)
Broken(dir, sub, name)          == GoFile(dir, sub, name, FALSE, <<>>, {}, <<>>)

ImportLists ==
    { <<>>,
      <<ImportSpec(TRUE, S_foo, <<S_pkg, S_v9>>), ImportSpec(FALSE, <<>>, <<S_fmt>>)>>,
      <<ImportSpec(FALSE, <<>>, <<S_x, S_pkg, S_v9>>), ImportSpec(TRUE, S_pkg, <<S_y>>),
        ImportSpec(FALSE, <<>>, <<S_v9>>), ImportSpec(FALSE, <<>>, <<S_n>>)>> }

\* resolveImportPath (finder.go:102-108): what build.Import answers per import path.
Resolve ==
    (<<S_pkg, S_v9>> :> [ok |-> TRUE, dir |-> D_ext])
    @@ (<<S_x, S_pkg, S_v9>> :> [ok |-> TRUE, dir |-> D_ext])
    @@ (<<S_fmt>> :> [ok |-> TRUE, dir |-> D_std])
    @@ (<<S_n>> :> [ok |-> TRUE, dir |-> D_near])
    @@ (<<S_x, S_pkg>> :> [ok |-> TRUE, dir |-> D_ext])
    @@ (<<S_y>> :> [ok |-> TRUE, dir |-> D_ext])
    @@ (<<S_v9>> :> [ok |-> FALSE, dir |-> <<>>])

Qualifiers == { S_Empty, S_foo, S_pkg, S_v9, S_fmt, S_n }

\* The file systems: the files in the order filepath.Walk and filepath.Glob list
\* them within each directory.
FileSystems ==
    { << a, at, c, WithTF(D_cur, <<>>, N_notes, <<>>), s, z,
         e, et, WithTF(D_std, <<>>, N_a, <<>>), WithTF(D_near, <<>>, N_a, <<>>) >> :
        a  \in { Bare(D_cur, <<>>, N_a, <<>>), WithTF(D_cur, <<>>, N_a, <<>>),
                 Broken(D_cur, <<>>, N_a) },
        at \in { Bare(D_cur, <<>>, N_a_test, <<>>), WithTF(D_cur, <<>>, N_a_test, <<>>) },
        c  \in { Bare(D_cur, <<>>, N_c, il) : il \in ImportLists }
               \cup { WithTF(D_cur, <<>>, N_c, il) : il \in ImportLists },
        s  \in { Bare(D_cur, <<"s">>, N_s, <<>>), WithTF(D_cur, <<"s">>, N_s, <<>>) },
        z  \in { Bare(D_cur, <<>>, N_z, <<>>), WithTF(D_cur, <<>>, N_z, <<>>) },
        e  \in { Bare(D_ext, <<>>, N_a, <<>>), WithTF(D_ext, <<>>, N_a, <<>>),
                 Broken(D_ext, <<>>, N_a) },
        et \in { Bare(D_ext, <<>>, N_a_test, <<>>), WithTF(D_ext, <<>>, N_a_test, <<>>) } }

\* The files a lookup is made from.
CurrentFiles == { N_a, N_c }

FileAt(fs, dir, name) ==
    fs[CHOOSE i \in 1..Len(fs) : fs[i].dir = dir /\ fs[i].sub = <<>> /\ fs[i].name = name]

NoLook ==
    [kind |-> "none", file |-> <<>>, qualifier |-> S_Empty, typeName |-> S_Empty,
     funcName |-> S_Empty, src |-> NoSrc, err |-> FALSE, scans |-> <<>>, parsed |-> <<>>,
     imp |-> NoImport]

Request(kind, file, qualifier, typeName, funcName) ==
    [kind |-> kind, file |-> file, qualifier |-> qualifier, typeName |-> typeName,
     funcName |-> funcName]

FindIdle ==
    /\ files = <<>>
    /\ lookups = 0
    /\ look = NoLook

(***************************************************************************)
(* Inputs of the batch model: a directory with three source files, their   *)
(* test files and a file that is not Go, in the order of filepath.Walk.    *)
(***************************************************************************)
P_root   == <<".">>
P_a      == <<"a", ".go">>
P_a_test == <<"a", "_test", ".go">>
P_b      == <<"b", ".go">>
P_b_test == <<"b", "_test", ".go">>
P_c      == <<"c", ".go">>
P_c_test == <<"c", "_test", ".go">>
P_notes  == <<"n", ".md">>

WalkOrder == <<P_root, P_a, P_a_test, P_b, P_b_test, P_c, P_c_test, P_notes>>

Paths == { WalkOrder[i] : i \in 1..Len(WalkOrder) }

SourceTexts ==
    { OnDisk(<<Header(S_pkg), NL, Func(S_Greet)>>, SourceFile(TRUE, <<M_Greet>>)),
      OnDisk(<<Junk>>, Unparsed) }

TestTexts ==
    { Missing,
      OnDisk(<<Header(S_pkg), NL, Func(S_TestGreeter_Greet), NL>>, Unparsed) }

Disks ==
    { (P_root :> Directory) @@ (P_notes :> OnDisk(<<Junk>>, Unparsed))
      @@ (P_a :> a) @@ (P_a_test :> at) @@ (P_b :> b) @@ (P_b_test :> bt)
      @@ (P_c :> c) @@ (P_c_test :> ct) :
        a \in SourceTexts, b \in SourceTexts, c \in SourceTexts,
        at \in TestTexts, bt \in TestTexts, ct \in TestTexts }

\* What the collaborators do for a target of the batch: the AI call fails, it
\* answers with fenced code, or it answers with an opening fence and no closing one.
BatchOutcomes ==
    { AIErr,
      Answer(<<FenceGo, NL, Func(S_TestGreeter_Greet), NL, Fence>>),
      Answer(<<FenceGo, Func(S_TestProcess)>>) }

NoBatch ==
    [ignoreError |-> FALSE, mode |-> "none", gran |-> "none", status |-> "none",
     start |-> <<>>, processed |-> <<>>]

NewBatch(ignoreError, mode, gran, d) ==
    [ignoreError |-> ignoreError, mode |-> mode, gran |-> gran, status |-> "walking",
     start |-> d, processed |-> <<>>]

DirIdle ==
    /\ disk = <<>>
    /\ pos = 0
    /\ batch = NoBatch

(***************************************************************************)
(* Inputs of the context model: the references collected for a target of   *)
(* c.go, which imports foo "pkg/v9", "x/pkg" and "fmt".                    *)
(***************************************************************************)
MaxRefs == 2
MaxContexts == 2

S_X == <<"X">>
S_Y == <<"Y">>

RefImports ==
    <<ImportSpec(TRUE, S_foo, <<S_pkg, S_v9>>), ImportSpec(FALSE, <<>>, <<S_x, S_pkg>>),
      ImportSpec(FALSE, <<>>, <<S_fmt>>)>>

RefFileSystems ==
    { << a,
         GoFile(D_cur, <<>>, N_c, TRUE, RefImports, {S_T},
                <<FnDecl(TRUE, S_T, S_F), FnDecl(FALSE, S_Empty, S_F)>>),
         e,
         WithTF(D_std, <<>>, N_a, <<>>) >> :
        a \in { Bare(D_cur, <<>>, N_a, <<>>),
                GoFile(D_cur, <<>>, N_a, TRUE, <<>>, {S_X}, <<>>) },
        e \in { GoFile(D_ext, <<>>, N_a, TRUE, <<>>, {S_T, S_X, S_Y},
                       <<FnDecl(TRUE, S_T, S_F)>>),
                GoFile(D_ext, <<>>, N_a, TRUE, <<>>, {S_X}, <<>>) } }

TypeRefs ==
    { typePair(S_Empty, S_T), typePair(S_Empty, S_X), typePair(S_foo, S_T),
      typePair(S_pkg, S_T), typePair(S_foo, S_Y), typePair(S_pkg, S_X),
      typePair(S_fmt, S_T) }

RECURSIVE SeqsUpTo(_, _)
SeqsUpTo(S, n) ==
    IF n = 0 THEN { <<>> }
    ELSE LET sub == SeqsUpTo(S, n - 1) IN
         sub \cup { Append(s, x) : s \in { t \in sub : Len(t) = n - 1 }, x \in S }

\* Every list of up to MaxRefs type references, and some longer ones.
TypeRefLists ==
    SeqsUpTo(TypeRefs, MaxRefs)
    \cup { <<typePair(S_foo, S_T), typePair(S_Empty, S_T), typePair(S_fmt, S_T),
             typePair(S_Empty, S_T), typePair(S_Empty, S_X)>>,
           <<typePair(S_pkg, S_X), typePair(S_foo, S_Y), typePair(S_Empty, S_T)>>,
           <<typePair(S_pkg, S_T), typePair(S_Empty, S_X), typePair(S_foo, S_T)>> }

CallRefLists ==
    { <<>>,
      <<functionPair(S_Empty, S_T, S_F), functionPair(S_Empty, S_Empty, S_F)>>,
      <<functionPair(S_pkg, S_T, S_F), functionPair(S_foo, S_T, S_F),
        functionPair(S_Empty, S_T, S_F), functionPair(S_foo, S_T, S_F)>>,
      <<functionPair(S_fmt, S_Empty, S_F), functionPair(S_Empty, S_Empty, S_F)>> }

NoContext ==
    [done |-> FALSE, err |-> FALSE, blocks |-> <<>>, funcs |-> <<>>, typeList |-> <<>>,
     callList |-> <<>>, prev |-> [done |-> FALSE, typeList |-> <<>>, callList |-> <<>>]]

NoRefs == [types |-> <<>>, calls |-> <<>>]

RefIdle ==
    /\ collected = NoRefs
    /\ contexts = 0
    /\ ctx = NoContext

(***************************************************************************)
(* Inputs of the response model: every response of up to MaxResponse       *)
(* tokens made of the two fences, a newline and a test function.           *)
(***************************************************************************)
MaxResponse == 4

ResponseTokens == { FenceGo, Fence, NL, Func(S_TestProcess) }

Responses == SeqsUpTo(ResponseTokens, MaxResponse)

NotExtracted == [done |-> FALSE, status |-> "none", code |-> <<>>]

TextIdle ==
    /\ resp = <<>>
    /\ extracted = NotExtracted

(***************************************************************************)
(* Inputs of the body model: bodies of up to MaxCalls calls, each a call   *)
(* of the method F on a parameter, on a variable declared in the body or   *)
(* on a name go/parser does not resolve, or a call of the function F or G. *)
(***************************************************************************)
MaxCalls == 2

S_G == <<"G">>

FieldTypes ==
    { Ident(S_T), StarExpr(Ident(S_T)), StarExpr(SelectorExpr(Ident(S_foo), S_T)),
      SelectorExpr(Ident(S_foo), S_T), ArrayType(Ident(S_T)),
      MapType(Ident(S_string), Ident(S_T)) }

CallExprs ==
    { MethodCall(VarObj("Field", t), S_F) : t \in FieldTypes }
    \cup { MethodCall(VarObj("AssignStmt", Ident(S_T)), S_F), MethodCall(NoObj, S_F),
           FuncCall(S_F), FuncCall(S_G) }

Bodies == SeqsUpTo(CallExprs, MaxCalls)

BodyIdle == body = <<>>

OthersIdle == FindIdle /\ DirIdle /\ RefIdle /\ TextIdle /\ BodyIdle

(***************************************************************************)
(* The naming specification: generateTestFuncName applied to a declaration.*)
(***************************************************************************)
NameIdle ==
    /\ method = M_Process
    /\ named = NotNamed

ProcIdle ==
    /\ source = SourceFile(TRUE, <<>>)
    /\ testFile = Absent
    /\ runs = 0
    /\ run = NoRun

NameInit ==
    /\ method \in Methods
    /\ named = NotNamed
    /\ ProcIdle
    /\ OthersIdle

\* One call of generateTestFuncName on the chosen declaration.
NameCall ==
    /\ ~named.done
    /\ named' = [done |-> TRUE] @@ generateTestFuncName(method)
    /\ UNCHANGED <<method, procVars, otherVars>>

NameNext == NameCall

SpecName == NameInit /\ [][NameNext]_vars

(***************************************************************************)
(* The reconciler specification: up to MaxRuns runs of processFile on one  *)
(* source file, each under a policy and with collaborators of its own.     *)
(***************************************************************************)
Init ==
    /\ source \in Sources
    /\ testFile \in TestFiles
    /\ runs = 0
    /\ run = NoRun
    /\ NameIdle
    /\ OthersIdle

ProcessFile(mode, gran, ai, write) ==
    /\ runs < MaxRuns
    /\ \E o \in {processFile(NoFilter, source, testFile, mode, gran, ai, write)} :
       /\ testFile' = o.file
       /\ run' = [mode |-> mode, gran |-> gran, pre |-> testFile, result |-> o.result,
                  parsed |-> o.parsed, decisions |-> o.decisions, aiCalls |-> o.aiCalls,
                  handed |-> o.handed, prev |-> [mode |-> run.mode, gran |-> run.gran],
                  filter |-> NoFilter]
    /\ runs' = runs + 1
    /\ UNCHANGED <<source, nameVars, otherVars>>

Next ==
    \E mode \in Modes, gran \in Grans, write \in Writes :
        \E ai \in [1..Len(source.decls) -> Outcomes] :
            ProcessFile(mode, gran, ai, write)

Spec == Init /\ [][Next]_vars

(***************************************************************************)
(* The finder specification: up to MaxLookups calls of FindTypeSource and  *)
(* FindFunctionSource from a file of /w, on one file system.               *)
(***************************************************************************)
FindInit ==
    /\ files \in FileSystems
    /\ lookups = 0
    /\ look = NoLook
    /\ NameIdle
    /\ ProcIdle
    /\ TextIdle
    /\ BodyIdle
    /\ DirIdle
    /\ RefIdle

LookupType(file, qualifier, typeName) ==
    /\ lookups < MaxLookups
    /\ look' = Request("type", file, qualifier, typeName, S_Empty)
                 @@ FindTypeSource(files, Resolve, FileAt(files, D_cur, file),
                                   qualifier, typeName)
    /\ lookups' = lookups + 1
    /\ UNCHANGED <<files, nameVars, procVars, textVars, bodyVars, dirVars, refVars>>

LookupFunction(file, qualifier, typeName, funcName) ==
    /\ lookups < MaxLookups
    /\ look' = Request("func", file, qualifier, typeName, funcName)
                 @@ FindFunctionSource(files, Resolve, FileAt(files, D_cur, file),
                                       qualifier, typeName, funcName)
    /\ lookups' = lookups + 1
    /\ UNCHANGED <<files, nameVars, procVars, textVars, bodyVars, dirVars, refVars>>

FindNext ==
    \E file \in CurrentFiles, qualifier \in Qualifiers :
        \/ \E typeName \in {S_T, S_U} : LookupType(file, qualifier, typeName)
        \/ \E typeName \in {S_Empty, S_T} : LookupFunction(file, qualifier, typeName, S_F)

SpecFind == FindInit /\ [][FindNext]_vars

(***************************************************************************)
(* The batch specification: one processDirectory call, a step per entry of *)
(* the walk.  batch.status is "walking", then "ok" (the walk returned nil),*)
(* "err" (it returned the error of a file) or "panic".                     *)
(***************************************************************************)
DirInit ==
    /\ disk \in Disks
    /\ pos = 1
    /\ \E ignoreError \in BOOLEAN, mode \in Modes, gran \in Grans :
          batch = NewBatch(ignoreError, mode, gran, disk)
    /\ NameIdle
    /\ ProcIdle
    /\ TextIdle
    /\ BodyIdle
    /\ FindIdle
    /\ RefIdle

Walking == batch.status = "walking" /\ pos <= Len(WalkOrder)

\* The status once the callback returned nil for the entry at pos.
AfterEntry == IF pos = Len(WalkOrder) THEN "ok" ELSE "walking"

\* generate.go:672-684, an entry that is not handed to processFile.
SkipEntry ==
    /\ Walking
    /\ ~Eligible(disk[WalkOrder[pos]], WalkOrder[pos])
    /\ pos' = pos + 1
    /\ batch' = [batch EXCEPT !.status = AfterEntry]
    /\ UNCHANGED <<disk, nameVars, procVars, textVars, bodyVars, findVars, refVars>>

\* generate.go:674-681, an eligible file.
VisitFile(ai, write) ==
    /\ Walking
    /\ Eligible(disk[WalkOrder[pos]], WalkOrder[pos])
    /\ \E o \in {processFileOnDisk(disk, WalkOrder[pos], batch.mode, batch.gran, ai, write)} :
          /\ disk' = o.disk
          /\ batch' = [batch EXCEPT
                !.processed = Append(@, [path |-> WalkOrder[pos], result |-> o.result,
                                         wrote |-> o.wrote, handed |-> o.handed]),
                !.status = IF o.result = "panic" THEN "panic"
                           ELSE IF o.result = "err" /\ StopOnError(batch.ignoreError)
                           THEN "err"
                           ELSE AfterEntry]
    /\ pos' = pos + 1
    /\ UNCHANGED <<nameVars, procVars, textVars, bodyVars, findVars, refVars>>

DirNext ==
    \/ SkipEntry
    \/ /\ Walking
       /\ \E write \in Writes :
             \E ai \in [1..Len(disk[WalkOrder[pos]].node.decls) -> BatchOutcomes] :
                 VisitFile(ai, write)

SpecDir == DirInit /\ [][DirNext]_vars

(***************************************************************************)
(* The context specification: up to MaxContexts runs of                    *)
(* generateTypeDefinitionSectionCode over the references of one target,    *)
(* on unchanged files.                                                     *)
(***************************************************************************)
RefInit ==
    /\ files \in RefFileSystems
    /\ lookups = 0
    /\ look = NoLook
    /\ \E types \in TypeRefLists, calls \in CallRefLists :
          collected = [types |-> types, calls |-> calls]
    /\ contexts = 0
    /\ ctx = NoContext
    /\ NameIdle
    /\ ProcIdle
    /\ TextIdle
    /\ BodyIdle
    /\ DirIdle

GenerateContext(uniquePairs, usedFunctions) ==
    /\ contexts < MaxContexts
    /\ \E c \in {generateTypeDefinitionSectionCode(files, Resolve, FileAt(files, D_cur, N_c),
                     collected.types, uniquePairs, usedFunctions)} :
          ctx' = [done |-> TRUE, err |-> c.err, blocks |-> c.blocks, funcs |-> c.funcs,
                  typeList |-> c.typeList, callList |-> c.callList,
                  prev |-> [done |-> ctx.done, typeList |-> ctx.typeList,
                            callList |-> ctx.callList]]
    /\ contexts' = contexts + 1
    /\ UNCHANGED <<collected, findVars, nameVars, procVars, textVars, bodyVars, dirVars>>

RefNext ==
    \E uniquePairs \in uniqueTypePair(collected.types),
       usedFunctions \in uniqueFunctionPair(collected.calls) :
        GenerateContext(uniquePairs, usedFunctions)

SpecRefs == RefInit /\ [][RefNext]_vars

(***************************************************************************)
(* The body specification: generateTypeDefinitionSectionCode for a target  *)
(* with no receiver, parameter types or results to look up, from the calls *)
(* of its body on: they are collected, deduplicated, sorted and looked up  *)
(* from c.go.                                                              *)
(***************************************************************************)
BodyInit ==
    /\ files \in RefFileSystems
    /\ lookups = 0
    /\ look = NoLook
    /\ body \in Bodies
    /\ collected = NoRefs
    /\ contexts = 0
    /\ ctx = NoContext
    /\ NameIdle
    /\ ProcIdle
    /\ TextIdle
    /\ DirIdle

GenerateFromBody(usedFunctions) ==
    /\ contexts < MaxContexts
    /\ collected' = [types |-> <<>>, calls |-> collectTypesAndFunctionsFromBody(body)]
    /\ \E c \in {generateTypeDefinitionSectionCode(files, Resolve, FileAt(files, D_cur, N_c),
                     <<>>, <<>>, usedFunctions)} :
          ctx' = [done |-> TRUE, err |-> c.err, blocks |-> c.blocks, funcs |-> c.funcs,
                  typeList |-> c.typeList, callList |-> c.callList,
                  prev |-> [done |-> ctx.done, typeList |-> ctx.typeList,
                            callList |-> ctx.callList]]
    /\ contexts' = contexts + 1
    /\ UNCHANGED <<body, findVars, nameVars, procVars, textVars, dirVars>>

BodyNext ==
    \E usedFunctions \in uniqueFunctionPair(collectTypesAndFunctionsFromBody(body)) :
        GenerateFromBody(usedFunctions)

SpecBody == BodyInit /\ [][BodyNext]_vars

(***************************************************************************)
(* The filter specification: one run of processFile with the flag --filter *)
(* set (or not), on one source file.                                       *)
(***************************************************************************)
FilterInit ==
    /\ source \in FilterSources
    /\ testFile \in FilterTestFiles
    /\ runs = 0
    /\ run = NoRun
    /\ NameIdle
    /\ OthersIdle

ProcessFiltered(functionFilter, mode, gran, ai, write) ==
    /\ runs = 0
    /\ \E o \in {processFile(functionFilter, source, testFile, mode, gran, ai, write)} :
       /\ testFile' = o.file
       /\ run' = [mode |-> mode, gran |-> gran, pre |-> testFile, result |-> o.result,
                  parsed |-> o.parsed, decisions |-> o.decisions, aiCalls |-> o.aiCalls,
                  handed |-> o.handed, prev |-> [mode |-> run.mode, gran |-> run.gran],
                  filter |-> functionFilter]
    /\ runs' = runs + 1
    /\ UNCHANGED <<source, nameVars, otherVars>>

FilterNext ==
    \E functionFilter \in Filters, mode \in Modes, gran \in Grans, write \in Writes :
        \E ai \in [1..Len(source.decls) -> FilterOutcomes] :
            ProcessFiltered(functionFilter, mode, gran, ai, write)

SpecFilter == FilterInit /\ [][FilterNext]_vars

(***************************************************************************)
(* The response specification: extractCode applied to one response.      *)
(***************************************************************************)
TextInit ==
    /\ resp \in Responses
    /\ extracted = NotExtracted
    /\ NameIdle
    /\ ProcIdle
    /\ FindIdle
    /\ DirIdle
    /\ RefIdle
    /\ BodyIdle

ExtractCode ==
    /\ ~extracted.done
    /\ \E c \in {extractCode(resp)} :
          extracted' = [done |-> TRUE, status |-> c.status, code |-> c.code]
    /\ UNCHANGED <<resp, nameVars, procVars, findVars, dirVars, refVars, bodyVars>>

TextNext == ExtractCode

SpecText == TextInit /\ [][TextNext]_vars

(***************************************************************************)
(* Properties of the reconciler (checked under Spec).  They read the       *)
(* record of the last run, so each holds of every run of a behaviour.      *)
(***************************************************************************)
Ran == run.result # "none"

\* The names of the function declarations of a text, whatever their prefix.
DeclaredNames(text) == { text[i].s : i \in { j \in 1..Len(text) : text[j].t = "func" } }

NumTargets == Len(source.decls)

\* The targets decided so far are the first ones, in source order.
DecidedInOrder ==
    /\ Len(run.decisions) <= NumTargets
    /\ \A k \in 1..Len(run.decisions) : run.decisions[k].idx = k

Called(i) == \E k \in 1..Len(run.aiCalls) : run.aiCalls[k] = i

\* Every target of the file was decided, and each one to generate had its AI call.
AllDecided ==
    /\ Len(run.decisions) = NumTargets
    /\ \A k \in 1..Len(run.decisions) :
          run.decisions[k].act = "generate" => Called(run.decisions[k].idx)

\* The generated code of the targets that were generated, in processing order.
GeneratedCode ==
    LET F[k \in 0..Len(run.decisions)] ==
            IF k = 0 THEN <<>>
            ELSE IF run.decisions[k].act = "generate"
                 THEN F[k - 1] \o run.decisions[k].code
                 ELSE F[k - 1]
    IN  F[Len(run.decisions)]

Unchanged == testFile = run.pre /\ run.aiCalls = <<>> /\ ~run.handed.some

SkipFunction == run.mode = modeSkip /\ run.gran = granularityFunction
SkipFileGran == run.mode = modeSkip /\ run.gran = granularityFile

\* C1 (as written): a Skip/Function run on a source file with the one method Greet
\* of receiver Greeter, whose test file already declares Test_Greeter_Greet, makes no
\* AI call and no write.
C1_SpecExample ==
    (/\ Ran /\ SkipFunction
     /\ source = SourceFile(TRUE, <<M_Greet>>)
     /\ run.pre.exists
     /\ S_Test_Greeter_Greet \in DeclaredNames(run.pre.text))
    => Unchanged

\* C1 (amended): a Skip/Function run on a source file whose test file already declares,
\* for every target, the name generateTestFuncName gives it (TestGreeter_Greet for
\* method Greet of receiver Greeter) makes no AI call and no write and leaves the
\* test file as it was; so does the run after it.
C1_Idempotent ==
    (/\ Ran /\ SkipFunction
     /\ source.ok
     /\ run.pre.exists
     /\ \A i \in 1..NumTargets :
           /\ ~generateTestFuncName(source.decls[i]).err
           /\ generateTestFuncName(source.decls[i]).name \in DeclaredNames(run.pre.text))
    => Unchanged

C1_Witness ==
    /\ runs = 2
    /\ SkipFunction /\ run.prev = [mode |-> modeSkip, gran |-> granularityFunction]
    /\ source = SourceFile(TRUE, <<M_Greet>>)
    /\ testFile = File(<<Header(S_pkg), NL, Func(S_TestGreeter_Greet), NL>>)
    /\ run.pre = testFile
    /\ run.parsed /\ run.result = "ok"
    /\ run.decisions = <<Decision(1, S_TestGreeter_Greet, "skip", <<>>)>>

\* C2: with Skip/File and an existing test file no target is processed: the test
\* file is not parsed, the AI is not called, nothing is written, the run succeeds.
C2_SkipFile ==
    (Ran /\ SkipFileGran /\ source.ok /\ run.pre.exists)
    => /\ ~run.parsed
       /\ run.decisions = <<>>
       /\ Unchanged
       /\ run.result = "ok"

C2_Witness ==
    /\ Ran /\ SkipFileGran
    /\ source = SourceFile(TRUE, <<M_Greet, M_Process>>)
    /\ run.pre = File(<<Junk>>)
    /\ run.result = "ok"

\* C3: with Skip/Function and an existing test file a target is skipped, with no AI
\* call for it, exactly when the test file declares a function of the target's
\* test name; every other target is generated.
C3_PerTarget ==
    (Ran /\ SkipFunction /\ run.pre.exists)
    => /\ DecidedInOrder
       /\ \A k \in 1..Len(run.decisions) :
             LET d == run.decisions[k] IN
             /\ d.name = generateTestFuncName(source.decls[d.idx]).name
             /\ d.act = "skip" <=> d.name \in DeclaredNames(run.pre.text)
             /\ d.act = "skip" => ~Called(d.idx)
       /\ \A k \in 1..Len(run.aiCalls) : run.aiCalls[k] \in 1..Len(run.decisions)
       /\ run.result = "ok" /\ source.ok => AllDecided

C3_Witness ==
    /\ Ran /\ SkipFunction
    /\ source = SourceFile(TRUE, <<M_Greet, M_Process>>)
    /\ run.pre = File(<<Header(S_pkg), NL, Func(S_TestGreeter_Greet), NL>>)
    /\ run.result = "ok"
    /\ Len(run.decisions) = 2
    /\ run.decisions[1].act = "skip" /\ run.decisions[2].act = "generate"
    /\ run.aiCalls = <<2>>

Policy(mode, gran, exists, declared) ==
    IF ~exists THEN "generate"
    ELSE IF mode = modeSkip /\ gran = granularityFile THEN "skip file"
    ELSE IF mode = modeSkip /\ gran = granularityFunction /\ declared THEN "skip"
    ELSE "generate"

\* C5: when the test file does not exist every target is generated under each of the
\* four policies and the text written starts with the header synthesized for the
\* source file's package; in all eight cases the decision per target is the policy
\* table's.
C5_PolicyTable ==
    (Ran /\ source.ok)
    => /\ DecidedInOrder
       /\ \A k \in 1..Len(run.decisions) :
             run.decisions[k].act =
                 Policy(run.mode, run.gran, run.pre.exists,
                        run.decisions[k].name \in DeclaredNames(run.pre.text))
       /\ Policy(run.mode, run.gran, run.pre.exists, FALSE) = "skip file"
             => run.decisions = <<>> /\ run.result = "ok"
       /\ ~run.pre.exists =>
             /\ run.result = "ok" => AllDecided /\ (NumTargets > 0 => run.handed.some)
             /\ run.handed.some =>
                   /\ SubSeq(run.handed.text, 1, 4) = <<NL, Header(source.pkg), NL, NL>>
                   /\ run.handed.text = <<NL, Header(source.pkg), NL, NL>> \o GeneratedCode

C5_Witness ==
    /\ Ran /\ SkipFileGran
    /\ ~run.pre.exists
    /\ run.result = "ok"
    /\ Len(run.decisions) = 2
    /\ testFile.exists /\ testFile.text = run.handed.text

\* C6 (as written): the text handed to persistence is exactly the original content (or
\* the synthesized header) followed by the code generated for the targets that
\* required generation, in processing order.
C6_PlainConcat ==
    run.handed.some =>
        run.handed.text =
            (IF run.pre.exists THEN run.pre.text ELSE defaultTestFile(source.pkg))
                \o GeneratedCode

\* C6 (amended): the text handed to persistence is the original content followed by
\* one newline (or the synthesized header when there was no file) followed by the code
\* generated for the targets that required generation, in processing order; a text is
\* handed over exactly when the loop completed and a target was generated.
C6_MergeResult ==
    /\ run.handed.some =>
          /\ run.handed.text =
                (IF run.pre.exists THEN run.pre.text \o <<NL>>
                 ELSE <<NL, Header(source.pkg), NL, NL>>) \o GeneratedCode
          /\ \E k \in 1..Len(run.decisions) : run.decisions[k].act = "generate"
          /\ AllDecided
    /\ (/\ run.result = "ok"
        /\ \E k \in 1..Len(run.decisions) : run.decisions[k].act = "generate")
       => run.handed.some /\ testFile = File(run.handed.text)

C6_Witness ==
    /\ run.handed.some /\ run.pre.exists /\ run.result = "ok"
    /\ source = SourceFile(TRUE, <<M_Greet, M_Process>>)
    /\ \/ /\ SkipFunction
          /\ run.decisions[1].act = "skip" /\ run.decisions[2].act = "generate"
       \/ /\ run.mode = modeAppend
          /\ run.decisions[1].code # run.decisions[2].code

\* C7: every step of the reconciler keeps the test file's content as a prefix of the
\* content it leaves and of the content it hands to persistence; an existing test
\* file never disappears.
C7_AppendOnly ==
    [][ /\ testFile.exists => testFile'.exists
        /\ IsPrefix(testFile.text, testFile'.text)
        /\ run'.handed.some => IsPrefix(testFile.text, run'.handed.text) ]_vars

C7_Witness ==
    /\ runs = 2
    /\ run.pre.exists /\ Len(run.pre.text) > 4
    /\ run.handed.some
    /\ testFile.text # run.pre.text
    /\ IsPrefix(run.pre.text, testFile.text)

(***************************************************************************)
(* Properties of the canonical test name (checked under SpecName).         *)
(***************************************************************************)
\* The leaves of a type expression, left to right (a map's key before its value).
RECURSIVE Leaves(_)
Leaves(expr) ==
    CASE expr.kind = "StarExpr"  -> Leaves(expr.X)
      [] expr.kind = "ArrayType" -> Leaves(expr.Elt)
      [] expr.kind = "MapType"   -> Leaves(expr.Key) \o Leaves(expr.Value)
      [] OTHER                   -> <<expr>>

IsNamedLeaf(e) == e.kind = "Ident" \/ (e.kind = "SelectorExpr" /\ e.X.kind = "Ident")
IsBadLeaf(e)   == e.kind = "SelectorExpr" /\ e.X.kind # "Ident"
LeafName(e)    == IF e.kind = "Ident" THEN e.Name ELSE e.Sel

HasBadLeaf(expr) == \E i \in 1..Len(Leaves(expr)) : IsBadLeaf(Leaves(expr)[i])

\* The names of the named leaves, left to right.
NamedLeaves(expr) ==
    LET ls == Leaves(expr)
        F[i \in 0..Len(ls)] ==
            IF i = 0 THEN <<>>
            ELSE IF IsNamedLeaf(ls[i]) THEN F[i - 1] \o <<LeafName(ls[i])>> ELSE F[i - 1]
    IN F[Len(ls)]

\* The innermost type of a wrapped type: what remains after unwrapping every
\* pointer, array/slice and map (to its value type).
RECURSIVE Innermost(_)
Innermost(expr) ==
    CASE expr.kind = "StarExpr"  -> Innermost(expr.X)
      [] expr.kind = "ArrayType" -> Innermost(expr.Elt)
      [] expr.kind = "MapType"   -> Innermost(expr.Value)
      [] OTHER                   -> expr

HasRecv == method.Recv.kind # "NoRecv"

\* C8 (as written): the name is "Test_" + ReceiverBaseTypeName + "_" + FunctionName
\* with a receiver and "Test_" + FunctionName without one.
C8_SpecFormat ==
    (named.done /\ ~named.err) =>
        IF HasRecv
        THEN named.name = S_Test \o S_Us \o NamedLeaves(method.Recv)[1] \o S_Us \o method.Name
        ELSE named.name = S_Test \o S_Us \o method.Name

\* C8 (amended): the name is "Test" + R + "_" + FunctionName with a receiver, R being
\* the first type name found in the receiver expression, and "Test" + FunctionName
\* without a receiver; the call fails exactly when the receiver holds a selector on a
\* non-identifier or no type name at all.
C8_CodeFormat ==
    named.done =>
        IF ~HasRecv
        THEN ~named.err /\ named.name = S_Test \o method.Name
        ELSE IF HasBadLeaf(method.Recv) \/ NamedLeaves(method.Recv) = <<>>
             THEN named.err
             ELSE /\ ~named.err
                  /\ named.name = S_Test \o NamedLeaves(method.Recv)[1] \o S_Us \o method.Name

C8_Witness ==
    /\ named.done
    /\ \/ method = FuncDecl(StarExpr(Ident(S_Greeter)), S_Greet) /\ named.name = S_TestGreeter_Greet
       \/ method = FuncDecl(NoRecv, S_Process) /\ named.name = S_TestProcess

\* Receivers made of pointer, array/slice and map wrappers around a named type.
WrappedNamed(expr) ==
    /\ IsNamedLeaf(Innermost(expr))
    /\ \A i \in 1..Len(Leaves(expr)) : IsNamedLeaf(Leaves(expr)[i])

\* C9: for a receiver built from pointer, array/slice and map wrappers, the receiver
\* part of the name is the innermost named type only (never a map's key type).
C9_InnermostOnly ==
    (named.done /\ HasRecv /\ WrappedNamed(method.Recv)) =>
        /\ ~named.err
        /\ named.name = S_Test \o LeafName(Innermost(method.Recv)) \o S_Us \o method.Name

IsLower(c) == c \in {"p", "g"}
Upper(c)   == CASE c = "p" -> "P" [] c = "g" -> "G" [] OTHER -> c

\* C10: the first letter of the function name is capitalized in the test name.
C10_Capitalized ==
    (named.done /\ ~named.err /\ IsLower(Head(method.Name))) =>
        LET n == Len(named.name) - Len(method.Name) + 1 IN
        /\ named.name[n] = Upper(Head(method.Name))
        /\ SubSeq(named.name, n + 1, Len(named.name)) = Tail(method.Name)

(***************************************************************************)
(* Failure of the AI collaborator (checked under Spec).                    *)
(***************************************************************************)
\* The AI was called for a target and no code came of it: the call failed or
\* extractCode did not give code for the response.
AIFailed ==
    \E k \in 1..Len(run.decisions) :
        /\ run.decisions[k].act = "generate"
        /\ Called(run.decisions[k].idx)
        /\ run.decisions[k].code = <<>>

NothingWritten == testFile = run.pre /\ ~run.handed.some

\* C16 (as written): when the AI fails for a target, or its response cannot be
\* turned into code, processFile returns an error and writes nothing.
C16_ErrorAndNoWrite ==
    (Ran /\ AIFailed) => (run.result = "err" /\ NothingWritten)

\* C16 without the crash: such a run never writes, and it returns an error unless
\* extractCode panicked.
C16_NoWriteOnFailure ==
    (Ran /\ AIFailed) => (run.result \in {"err", "panic"} /\ NothingWritten)

(***************************************************************************)
(* Properties of the finder (checked under SpecFind).  They read the       *)
(* record of the last lookup.                                              *)
(***************************************************************************)
Looked     == look.kind # "none"
CurFile    == FileAt(files, D_cur, look.file)
TypeLookup == look.kind = "type"
FuncLookup == look.kind = "func"

\* C11: an unqualified type lookup for a type the current file declares returns the
\* current file's declaration and starts no package search (no sibling file is
\* parsed), whatever the other files of the package declare.
C11_LocalFirst ==
    (/\ TypeLookup /\ look.qualifier = S_Empty
     /\ CurFile.ok /\ look.typeName \in CurFile.types)
    => /\ look.src = formatTypeDeclaration(CurFile, look.typeName)
       /\ ~look.err
       /\ look.scans = <<>>
       /\ look.parsed = <<>>

\* The lookup is made from c.go for T, which a.go, listed before c.go, declares too.
C11_Witness ==
    /\ TypeLookup /\ look.qualifier = S_Empty /\ look.typeName = S_T
    /\ look.file = N_c
    /\ S_T \in CurFile.types
    /\ S_T \in FileAt(files, D_cur, N_a).types
    /\ look.src = formatTypeDeclaration(CurFile, S_T)

\* What C12 says of an import: an aliased import matches by its alias only, an
\* unaliased one by its last segment once one trailing /v<digits> is removed.
ImportMatches(imp, shortName) ==
    IF imp.hasName THEN imp.Name = shortName
    ELSE \/ /\ Len(imp.Path) >= 2
            /\ IsVersionSegment(imp.Path[Len(imp.Path)])
            /\ imp.Path[Len(imp.Path) - 1] = shortName
         \/ /\ ~(Len(imp.Path) >= 2 /\ IsVersionSegment(imp.Path[Len(imp.Path)]))
            /\ imp.Path[Len(imp.Path)] = shortName

\* C12: findImportPath answers found with the path of the first import of the list
\* that matches, and not-found when none matches.
C12_ImportResolution ==
    (Looked /\ look.imp.asked)
    => LET imports == CurFile.imports
           hits == { i \in 1..Len(imports) : ImportMatches(imports[i], look.qualifier) }
       IN  /\ look.imp.ok = (hits # {})
           /\ hits # {} =>
                 /\ look.imp.path = imports[Min(hits)].Path
                 /\ \A j \in 1..(Min(hits) - 1) :
                       ~ImportMatches(imports[j], look.qualifier)

\* The unaliased import "x/pkg/v9" resolves pkg although a later import is aliased pkg.
C12_Witness ==
    /\ Looked /\ look.imp.asked /\ look.imp.ok
    /\ look.qualifier = S_pkg
    /\ look.imp.path = <<S_x, S_pkg, S_v9>>
    /\ \E i \in 1..Len(CurFile.imports) :
          CurFile.imports[i].hasName /\ CurFile.imports[i].Name = S_pkg

\* The directory is the root or lies below it.
IsUnder(dir, root) == dir = root \/ HasPrefix(dir, root \o <<"/">>)

\* C13: a qualifier resolving to a directory under GOROOT gives the empty text with
\* no error and starts no package search, for type and function lookups alike.
C13_StandardLibrary ==
    (/\ Looked /\ look.imp.asked /\ look.imp.ok
     /\ Resolve[look.imp.path].ok
     /\ IsUnder(Resolve[look.imp.path].dir, GOROOT))
    => /\ look.src = NoSrc
       /\ ~look.err
       /\ look.scans = <<>>
       /\ look.parsed = <<>>

\* fmt.F is asked for; the directory of fmt holds a file declaring F.
C13_Witness ==
    /\ FuncLookup /\ look.qualifier = S_fmt /\ look.imp.ok
    /\ Resolve[look.imp.path].dir = D_std
    /\ \E i \in 1..Len(files) : files[i].dir = D_std /\ files[i].funcs # <<>>
    /\ look.src = NoSrc /\ ~look.err /\ look.scans = <<>>

\* C14 (as written): when the qualifier matches no import, a type lookup fails and a
\* function lookup gives the empty result with no error.
C14_UnresolvedQualifier ==
    (Looked /\ look.imp.asked /\ ~look.imp.ok)
    => /\ TypeLookup => look.err
       /\ FuncLookup => (~look.err /\ look.src = NoSrc)

(***************************************************************************)
(* Properties of the batch (checked under SpecDir).                        *)
(***************************************************************************)
BatchOver == batch.status \in {"ok", "err", "panic"}

EligiblePaths ==
    { WalkOrder[i] : i \in { j \in 1..Len(WalkOrder) :
                               Eligible(batch.start[WalkOrder[j]], WalkOrder[j]) } }

ProcessedPaths == { batch.processed[k].path : k \in 1..Len(batch.processed) }

Failed(k) == batch.processed[k].result # "ok"

\* The test file of every file that was processed with a write that succeeded holds
\* what was written.
WrittenKept ==
    \A k \in 1..Len(batch.processed) :
        (batch.processed[k].wrote /\ batch.processed[k].result = "ok") =>
            /\ disk[testFilePath(batch.processed[k].path)].exists
            /\ disk[testFilePath(batch.processed[k].path)].text
                   = batch.processed[k].handed.text

\* The policy of C15 for the batch as it stands.
BatchPolicy ==
    /\ \A k \in 1..Len(batch.processed) :
          (Failed(k) /\ ~batch.ignoreError) =>
              /\ k = Len(batch.processed)
              /\ batch.status = "err"
    /\ (BatchOver /\ batch.ignoreError) =>
          /\ ProcessedPaths = EligiblePaths
          /\ batch.status = "ok"
    /\ WrittenKept

\* C15 (as written): a failing file ends the batch with its error when ignore-error
\* is false; when it is true every eligible file is processed and the batch returns
\* no error; the test files written for earlier files are kept.
C15_BatchPolicy == BatchPolicy

\* C15 without the crash: the policy holds of every batch in which no file made
\* processFile panic.
C15_PolicyWithoutPanic ==
    (\A k \in 1..Len(batch.processed) : batch.processed[k].result # "panic")
    => BatchPolicy

ClaimedBefore(p, n, q, m) ==
    IF p = S_Empty /\ q # S_Empty THEN TRUE
    ELSE IF p # S_Empty /\ q = S_Empty THEN FALSE
    ELSE IF p # q THEN StringLess(p, q)
    ELSE StringLess(n, m)

TypeListOrdered ==
    \A i, j \in 1..Len(ctx.typeList) :
        i < j => ClaimedBefore(ctx.typeList[i].PackageName, ctx.typeList[i].TypeName,
                               ctx.typeList[j].PackageName, ctx.typeList[j].TypeName)

\* For call references the name is the owner type, then the function name.
CallListOrdered ==
    \A i, j \in 1..Len(ctx.callList) :
        i < j =>
            LET x == ctx.callList[i]
                y == ctx.callList[j]
            IN  IF x.TypeName # y.TypeName \/ x.PackageName # y.PackageName
                THEN ClaimedBefore(x.PackageName, x.TypeName, y.PackageName, y.TypeName)
                ELSE StringLess(x.FuncName, y.FuncName)

\* C17 (as written): the ordered lists of type references and of call references
\* put the empty qualifier first, then go by qualifier, then by name; so foo.Y comes
\* before pkg.X.
C17_ClaimedOrder == ctx.done => (TypeListOrdered /\ CallListOrdered)

\* The call references alone are in the order C17 states.
C17_CallsOrdered == ctx.done => CallListOrdered

\* C18 (as written): a second run over the same references gives the same ordered
\* lists as the first.
C18_SameLists ==
    (ctx.done /\ ctx.prev.done)
    => /\ ctx.typeList = ctx.prev.typeList
       /\ ctx.callList = ctx.prev.callList

\* The call references alone come out the same in every run.
C18_SameCalls ==
    (ctx.done /\ ctx.prev.done /\ ~ctx.err) => ctx.callList = ctx.prev.callList

\* The distinct type references collected for the target.
CollectedTypes == { collected.types[i] : i \in 1..Len(collected.types) }

SourceOf(pair) ==
    FindTypeSource(files, Resolve, FileAt(files, D_cur, N_c), pair.PackageName,
                   pair.TypeName).src

\* C19: in the blob every "Model:" block comes before every "Package: Model:" block,
\* no two blocks are of the same (qualifier, name), and the blocks are those of the
\* collected references whose source is not empty, each with that source.
C19_Blob ==
    (ctx.done /\ ~ctx.err)
    => /\ \A i, j \in 1..Len(ctx.blocks) :
             (ctx.blocks[i].header = "Model" /\ ctx.blocks[j].header = "Package Model")
             => i < j
       /\ \A i \in 1..Len(ctx.blocks) :
             ctx.blocks[i].header = "Model" <=> ctx.blocks[i].Package = S_Empty
       /\ \A i, j \in 1..Len(ctx.blocks) :
             (ctx.blocks[i].Package = ctx.blocks[j].Package
              /\ ctx.blocks[i].Model = ctx.blocks[j].Model) => i = j
       /\ \A i \in 1..Len(ctx.blocks) :
             /\ typePair(ctx.blocks[i].Package, ctx.blocks[i].Model) \in CollectedTypes
             /\ ctx.blocks[i].Definition # NoSrc
             /\ ctx.blocks[i].Definition
                    = SourceOf(typePair(ctx.blocks[i].Package, ctx.blocks[i].Model))
       /\ \A pair \in CollectedTypes :
             SourceOf(pair) = NoSrc =>
                 ~\E i \in 1..Len(ctx.blocks) :
                     ctx.blocks[i].Package = pair.PackageName
                     /\ ctx.blocks[i].Model = pair.TypeName

\* foo.T, T, fmt.T, T again and X were collected: the blob is the block of T, from
\* c.go, then the block of foo.T; fmt.T and X have no source and no block.
C19_Witness ==
    /\ ctx.done /\ ~ctx.err
    /\ collected.types = <<typePair(S_foo, S_T), typePair(S_Empty, S_T),
                           typePair(S_fmt, S_T), typePair(S_Empty, S_T),
                           typePair(S_Empty, S_X)>>
    /\ Len(ctx.blocks) = 2
    /\ ctx.blocks[1].header = "Model" /\ ctx.blocks[1].Model = S_T
    /\ ctx.blocks[2].header = "Package Model" /\ ctx.blocks[2].Package = S_foo
    /\ SourceOf(typePair(S_fmt, S_T)) = NoSrc
    /\ SourceOf(typePair(S_Empty, S_X)) = NoSrc

(***************************************************************************)
(* Properties of the package searches (checked under SpecFind).            *)
(***************************************************************************)
Scanned == Looked /\ look.scans # <<>>

\* The files a search for a type is meant to look at in the directory it was
\* started in, subdirectories included, in enumeration order; and those directly
\* in that directory.
TypeCandidates ==
    SelectSeq(files, LAMBDA f : /\ f.dir = look.scans[1]
                                /\ IsGoFile(f.name) /\ ~IsTestFile(f.name))

Declares(f) == f.ok /\ look.typeName \in f.types

Declaring == { i \in 1..Len(TypeCandidates) : Declares(TypeCandidates[i]) }

\* C22 (as written): a search for a type that several files declare gives the
\* declaration of the first of them in enumeration order and stops there.
C22_FirstMatch ==
    (Scanned /\ TypeLookup /\ ~look.err /\ Declaring # {})
    => /\ look.src = formatTypeDeclaration(TypeCandidates[Min(Declaring)], look.typeName)
       /\ look.parsed[Len(look.parsed)] = TypeCandidates[Min(Declaring)]

\* C23 (as written): an unqualified lookup only searches files directly in the
\* directory of the current file and never returns a declaration of a file of a
\* subdirectory.
C23_SameDirectoryOnly ==
    (Looked /\ look.qualifier = S_Empty)
    => /\ \A i \in 1..Len(look.parsed) : look.parsed[i].sub = <<>>
       /\ look.src # NoSrc => look.src[1].sub = <<>>

\* The unqualified lookups of a function alone stay in the directory.
C23_FunctionsSameDirectory ==
    (FuncLookup /\ look.qualifier = S_Empty)
    => /\ \A i \in 1..Len(look.parsed) : look.parsed[i].sub = <<>>
       /\ look.src # NoSrc => look.src[1].sub = <<>>

\* C24 (as written): no lookup returns a declaration taken from a file named
\* *_test.go.
C24_NoTestFiles ==
    (Looked /\ look.src # NoSrc) => ~IsTestFile(look.src[1].file)

\* The lookups of a type alone never return a declaration of a test file.
C24_TypesNoTestFiles ==
    (TypeLookup /\ look.src # NoSrc) => ~IsTestFile(look.src[1].file)

BrokenParsed == \E i \in 1..Len(look.parsed) : ~look.parsed[i].ok

\* C25 (as written): a candidate file that fails to parse makes the lookup fail,
\* for types and functions alike.
C25_ParseErrorAborts ==
    (Scanned /\ BrokenParsed) => (look.err /\ look.src = NoSrc)

\* The files the search for a function looks at, in enumeration order, and the
\* first declaration among those that parse.
FuncCandidates ==
    SelectSeq(files, LAMBDA f : /\ f.dir = look.scans[1] /\ f.sub = <<>>
                                /\ IsGoFile(f.name))

FuncHits ==
    { i \in 1..Len(FuncCandidates) :
        /\ FuncCandidates[i].ok
        /\ findFunctionOrMethodInFile(FuncCandidates[i], look.typeName, look.funcName)
               # NoSrc }

\* C25 (amended): a candidate file that fails to parse makes a lookup of a type
\* fail; a lookup of a function skips it and gives the first declaration of the
\* files that parse, with no error; a reference that no candidate declares, none
\* of them failing to parse, gives the empty result with no error.
C25_TypeAbortsFunctionSkips ==
    /\ (Scanned /\ TypeLookup /\ BrokenParsed) => (look.err /\ look.src = NoSrc)
    /\ (Scanned /\ FuncLookup) =>
          /\ ~look.err
          /\ look.src = IF FuncHits = {} THEN NoSrc
                        ELSE findFunctionOrMethodInFile(FuncCandidates[Min(FuncHits)],
                                                        look.typeName, look.funcName)
    /\ (Scanned /\ TypeLookup /\ Declaring = {}
        /\ \A i \in 1..Len(TypeCandidates) : TypeCandidates[i].ok)
       => (~look.err /\ look.src = NoSrc)

\* The search for F met a.go, which fails to parse, and gave the F of z.go.
C25_Witness ==
    /\ Scanned /\ FuncLookup /\ look.qualifier = S_Empty /\ look.file = N_c
    /\ ~FileAt(files, D_cur, N_a).ok
    /\ \E i \in 1..Len(look.parsed) : look.parsed[i].name = N_a
    /\ look.src # NoSrc /\ look.src[1].file = N_z
    /\ ~look.err

(***************************************************************************)
(* Properties of extractCode (checked under SpecText).                     *)
(***************************************************************************)
Fences == { i \in 1..Len(resp) : resp[i].t \in {"fenceGo", "fence"} }

\* The fence the code starts after: the first one with the language tag, or
\* else the first one.
OpeningFence ==
    LET tagged == { i \in Fences : resp[i].t = "fenceGo" } IN
    IF tagged # {} THEN Min(tagged) ELSE Min(Fences)

Unclosed == Fences # {} /\ \A i \in Fences : i <= OpeningFence

\* C28 (as written): extractCode never panics; a response with an opening fence
\* and no fence after it gives the error value; on success the code is the text
\* between the opening fence and the last fence.
C28_NeverPanics ==
    extracted.done =>
        /\ extracted.status # "panic"
        /\ Unclosed => extracted.status = "err"
        /\ extracted.status = "ok" =>
              extracted.code = TrimRightNL(TrimLeftNL(
                  SubSeq(resp, OpeningFence + 1, Max(Fences) - 1)))

\* What the code does: it panics exactly on the responses with no fence after
\* the opening one, and gives the error value when there is no fence at all or
\* the last fence follows the opening one at once.
C28_PanicsWhenUnclosed ==
    extracted.done =>
        /\ extracted.status = "panic" <=> Unclosed
        /\ extracted.status = "err" <=>
              (Fences = {} \/ Max(Fences) = OpeningFence + 1)
        /\ extracted.status = "ok" =>
              extracted.code = TrimRightNL(TrimLeftNL(
                  SubSeq(resp, OpeningFence + 1, Max(Fences) - 1)))

(***************************************************************************)
(* Properties of the function filter (checked under SpecFilter).           *)
(***************************************************************************)
\* The positions in the source file of the declarations a filter lets through.
Matching ==
    { i \in 1..Len(source.decls) :
        run.filter.kind = "none" \/ MatchString(run.filter, source.decls[i].Name) }

\* The position in the source file of the k-th of them.
RECURSIVE NthOf(_, _)
NthOf(S, k) == IF k = 1 THEN Min(S) ELSE NthOf(S \ {Min(S)}, k - 1)

\* C21: with a filter the targets are the function declarations whose name
\* matches it, in source order, and only they get an AI call; with no filter
\* every function declaration is a target; an invalid filter makes processFile
\* fail before any target is processed.
C21_FunctionFilter ==
    (Ran /\ source.ok) =>
        /\ run.filter.kind = "invalid"
              => (run.result = "err" /\ run.decisions = <<>> /\ Unchanged)
        /\ run.filter.kind # "invalid" =>
              /\ Len(run.decisions) <= Cardinality(Matching)
              /\ \A k \in 1..Len(run.decisions) :
                    /\ run.decisions[k].idx = k
                    /\ run.decisions[k].name =
                          generateTestFuncName(source.decls[NthOf(Matching, k)]).name
              /\ \A k \in 1..Len(run.aiCalls) : run.aiCalls[k] \in 1..Len(run.decisions)
              /\ (run.result = "ok" /\ ~SkipWholeFile(fileExists(run.pre), run.mode, run.gran))
                    => Len(run.decisions) = Cardinality(Matching)
        /\ run.filter.kind = "none" => Matching = 1..Len(source.decls)

\* ^G on GetUser, Process, Greet: the targets were GetUser and Greet, in that order,
\* and both were generated.
C21_Witness ==
    /\ Ran /\ run.filter = Anchored("prefix", <<"G">>)
    /\ Len(source.decls) = 3
    /\ run.result = "ok"
    /\ Len(run.decisions) = 2
    /\ run.decisions[1].name = S_Test \o S_GetUser
    /\ run.decisions[2].name = S_TestGreeter_Greet
    /\ run.aiCalls = <<1, 2>>

(***************************************************************************)
(* A test file that does not parse (checked under Spec).                   *)
(***************************************************************************)
Malformed == Ran /\ fileExists(run.pre) /\ ~ParsesAsGo(run.pre.text)

\* C27 (as written): when the test file exists and does not parse, processFile
\* returns an error before any AI call and writes nothing, under each of the four
\* policies.
C27_FatalUnderEveryPolicy ==
    Malformed => (run.result = "err" /\ run.aiCalls = <<>> /\ NothingWritten)

\* C27 (amended): such a run never calls the AI and never writes; it returns an
\* error when the source file has a target and the policy is not Skip/File, and
\* when the source file does not parse; under Skip/File, and when the source file
\* has no target, it returns success and has not read the test file.
C27_FatalUnlessSkipped ==
    Malformed =>
        /\ run.aiCalls = <<>> /\ run.decisions = <<>> /\ NothingWritten
        /\ IF ~source.ok THEN run.result = "err" /\ ~run.parsed
           ELSE IF Len(source.decls) = 0 \/ (run.mode = modeSkip /\ run.gran = granularityFile)
           THEN run.result = "ok" /\ ~run.parsed
           ELSE run.result = "err" /\ run.parsed

\* A run under Append/Function on a source file with targets whose test file
\* does not parse.
C27_Witness ==
    /\ Malformed /\ source.ok /\ Len(source.decls) > 0
    /\ run.mode = modeAppend /\ run.gran = granularityFunction
    /\ run.result = "err" /\ run.parsed

(***************************************************************************)
(* Writes that fail midway (checked under Spec).                           *)
(***************************************************************************)
\* C7 for the runs that do not fail in the write: a run that returns no error, or
\* fails before it writes, keeps the test file's content as a prefix of what it
\* leaves; what is handed to writeTestFile always starts with it.
C7_AppendOnlyUnlessCut ==
    [][ /\ run'.handed.some => IsPrefix(testFile.text, run'.handed.text)
        /\ (run'.result = "ok" \/ ~run'.handed.some) =>
              /\ testFile.exists => testFile'.exists
              /\ IsPrefix(testFile.text, testFile'.text) ]_vars

(***************************************************************************)
(* Runs under Skip/File (checked under Spec).                              *)
(***************************************************************************)
SkipFileStep == run'.mode = modeSkip /\ run'.gran = granularityFile

\* A run on a source file with a first target that can be named starts generating.
GeneratesAgain ==
    (source.ok /\ Len(source.decls) > 0 /\ ~generateTestFuncName(source.decls[1]).err)
    => (run'.decisions # <<>> /\ run'.decisions[1].act = "generate")

\* C29 (as written): under Skip/File a run that finds the test file makes no AI
\* call and no write; a run that finds none and fails, or generates nothing,
\* leaves it absent; and a run that finds none generates.
C29_GeneratedAtMostOnce ==
    [][ SkipFileStep =>
          /\ fileExists(testFile) =>
                (testFile' = testFile /\ run'.aiCalls = <<>> /\ ~run'.handed.some)
          /\ (~fileExists(testFile) /\ (run'.result # "ok" \/ ~run'.handed.some))
                => ~fileExists(testFile')
          /\ ~fileExists(testFile) => GeneratesAgain ]_vars

\* What holds of the code: the same, but for a run that fails in the write, which
\* may leave a test file cut short.
C29_UnlessCut ==
    [][ SkipFileStep =>
          /\ fileExists(testFile) =>
                (testFile' = testFile /\ run'.aiCalls = <<>> /\ ~run'.handed.some)
          /\ (~fileExists(testFile) /\ ~run'.handed.some) => ~fileExists(testFile')
          /\ (~fileExists(testFile) /\ run'.handed.some /\ run'.result # "ok"
              /\ fileExists(testFile'))
                => (testFile'.text # run'.handed.text
                    /\ IsPrefix(testFile'.text, run'.handed.text))
          /\ ~fileExists(testFile) => GeneratesAgain ]_vars

(***************************************************************************)
(* Names of the targets of one file (checked under SpecFilter).            *)
(***************************************************************************)
\* The target a decision of the last run is about.
TargetOf(k) == source.decls[NthOf(Matching, run.decisions[k].idx)]

\* The receiver base type of a declaration (the empty name when it has none).
ReceiverBase(m) ==
    IF m.Recv.kind = "NoRecv" THEN S_Empty
    ELSE parseTypeDefination(m.Recv).pairs[1].TypeName

\* C30 (as written): two targets of a file that differ in their receiver base type
\* or in their function name never get the same test name, so that under
\* Skip/Function a test of the one never makes the other be skipped.
C30_InjectiveNames ==
    (Ran /\ source.ok) =>
        \A k, l \in 1..Len(run.decisions) :
            (\/ TargetOf(k).Name # TargetOf(l).Name
             \/ ReceiverBase(TargetOf(k)) # ReceiverBase(TargetOf(l)))
            => run.decisions[k].name # run.decisions[l].name

\* The names differ whenever no function name and no receiver base type of the two
\* targets holds an underscore.
NoUnderscore(n) == \A i \in 1..Len(n) : n[i] # "_"

C30_InjectiveWithoutUnderscore ==
    (Ran /\ source.ok) =>
        \A k, l \in 1..Len(run.decisions) :
            (/\ \/ TargetOf(k).Name # TargetOf(l).Name
                \/ ReceiverBase(TargetOf(k)) # ReceiverBase(TargetOf(l))
             /\ NoUnderscore(TargetOf(k).Name) /\ NoUnderscore(TargetOf(l).Name)
             /\ NoUnderscore(ReceiverBase(TargetOf(k)))
             /\ NoUnderscore(ReceiverBase(TargetOf(l))))
            => run.decisions[k].name # run.decisions[l].name

\* The consequence C30 draws: under Skip/Function the function Greeter_Greet is
\* never skipped for the test of the method Greet of Greeter.
C30_SkippedForAnother ==
    ~(/\ Ran /\ run.mode = modeSkip /\ run.gran = granularityFunction
      /\ Len(run.decisions) = 2
      /\ TargetOf(2) = M_Greeter_Greet
      /\ run.decisions[2].act = "skip"
      /\ run.pre.text = <<Header(S_pkg), NL, Func(S_TestGreeter_Greet), NL>>)

(***************************************************************************)
(* Calls on variables (checked under SpecBody).                            *)
(***************************************************************************)
\* The names the body calls as functions: Name().
DirectCalls == { body[i].Sel : i \in { j \in 1..Len(body) : body[j].Fun = "Ident" } }

\* The call references with no package and no owner type.
Ownerless ==
    { i \in 1..Len(collected.calls) :
        /\ collected.calls[i].PackageName = S_Empty
        /\ collected.calls[i].TypeName = S_Empty }

\* The declarations of a top-level function among the sources handed on.
TopLevelSources ==
    { i \in 1..Len(ctx.funcs) : ctx.funcs[i] # NoSrc /\ ctx.funcs[i][1].recv = S_Empty }

\* C26 (as written): a method call on a variable gives a call reference only with
\* the owner type inferred from the variable's declaration, and none when no owner
\* type can be inferred: every call reference with no owner comes from a call of a
\* function, and only functions the body calls are looked up as functions.
C26_NoOwnerlessMethodCall ==
    ctx.done =>
        /\ \A i \in Ownerless : collected.calls[i].FuncName \in DirectCalls
        /\ ~ctx.err => \A i \in TopLevelSources : ctx.funcs[i][1].name \in DirectCalls

\* What holds of the code: a method call on a parameter gives a call reference
\* whatever the type of the parameter, with the owner when the type is T or
\* *pkg.T and with no owner otherwise; a call on a variable that is not a
\* parameter, or on a name that is not resolved, gives none.
C26_OwnerlessWhenNotInferred ==
    ctx.done =>
        collected.calls =
            LET U[i \in 0..Len(body)] ==
                    IF i = 0 THEN <<>>
                    ELSE LET x == body[i] IN
                         IF x.Fun = "Ident"
                         THEN Append(U[i - 1], functionPair(S_Empty, S_Empty, x.Sel))
                         ELSE IF x.X.Kind # "Var" \/ x.X.Decl # "Field" THEN U[i - 1]
                         ELSE IF x.X.Type = Ident(S_T)
                         THEN Append(U[i - 1], functionPair(S_Empty, S_T, x.Sel))
                         ELSE IF x.X.Type = StarExpr(SelectorExpr(Ident(S_foo), S_T))
                         THEN Append(U[i - 1], functionPair(S_foo, S_T, x.Sel))
                         ELSE Append(U[i - 1], functionPair(S_Empty, S_Empty, x.Sel))
            IN  U[Len(body)]

\* The consequence C26 draws: with the body p.F(), p a parameter of type *T, no
\* declaration of a function is handed on.
C26_LookedUpAsFunction ==
    ~(/\ ctx.done /\ ~ctx.err
      /\ body = <<MethodCall(VarObj("Field", StarExpr(Ident(S_T))), S_F)>>
      /\ TopLevelSources # {})

=============================================================================
